---- MODULE Spec2Model ----
(***************************************************************************)
(* Model of the polyglot export engine's download pipeline:                *)
(*   db.js streamRows (pool connection + pg-cursor async generator),       *)
(*   writers/jsonWriter.js, xmlWriter.js, csvWriter.js, parquetWriter.js,  *)
(*   and the Node.js streams they write to (csv-stringify Transform,       *)
(*   zlib Gzip Transform, the HTTP response, the fs read stream).          *)
(* One download is modelled from the call of the writer to the end of the  *)
(* GET /exports/:id/download handler (Spec, FairSpec); job creation by     *)
(* POST /exports and the jobs.js store are modelled in PostSpec.           *)
(* Node 20 stream semantics (the image the Dockerfile pins) are assumed    *)
(* for write(), 'drain', pipe() and destroyed streams.                     *)
(***************************************************************************)
EXTENDS Integers, Sequences, FiniteSets, TLC

\* ---- bounds -------------------------------------------------------------
MaxRows == 3      \* rows in public.records
MaxBatch == 2     \* largest cursor batch size tried
HWM == 2          \* chunks a Transform buffers before write() returns false
                  \* (scaled down from highWaterMark = 16 objects / 16 KiB)
ReadChunk == 2    \* tokens per 'data' chunk of the temp-file read stream
MaxJobs == 2      \* jobs created by POST /exports in one run
MaxWaiting == 2   \* pool.connect() calls waiting at one time
TimeoutTicks == 2 \* connectionTimeoutMillis, in ticks of the pool's clock
PoolMax == 10     \* max: 10 of the pool

Formats == {"csv", "json", "xml", "parquet"}
TextFormats == {"csv", "json", "xml"}
Streams == {"csv", "gz", "res"}

VARIABLES
  \* job configuration and data set (fixed for one download)
  fmt, compress, batchSize, nrows, bad,
  \* streamRows generator (db.js)
  gen, cursorPos, cursor, connHeld, nAcquired, nReleased, genExit, relCursor,
  yielded,
  \* writer coroutine
  pc, resume, batch, idx, isFirst, encoded, werr,
  \* streams
  io, clientAborted, stalled,
  \* parquet staging
  tmpExists, pqRows, pqClosed, filePos, unlinkPending,
  \* the Node.js process
  errPending, crashed,
  \* jobs.js store, and the POST /exports request in hand with its answer
  store, req, lastRes,
  \* job ids of the download handlers that are awaiting their writer
  inflight,
  \* GET /exports/:id/download: handler position, job id, response head
  route, dlId, resStatus, errBody, headers,
  \* the pg Pool: clients created, idle clients, waiting connect() calls,
  \* what the pool did last
  poolTotal, poolIdle, poolQueue, poolEvent,
  \* one record taken through an encoder: input and result
  encIn, encOut,
  \* GET /exports/benchmark: handler position, index of the format in hand,
  \* runBenchmark calls that have not settled, the promise of the call in hand,
  \* the results array, the answer, requests answered so far
  benchPc, benchIdx, benchRunning, benchOutcome, results, benchRes, benchServed,
  \* write streams of runBenchmark whose file is being opened, and benchmark
  \* temp files on disk
  benchOpening, benchFiles

cfgVars == <<fmt, compress, batchSize, nrows, bad>>
genVars == <<gen, cursorPos, cursor, connHeld, nAcquired, nReleased, genExit,
             relCursor, yielded>>
wrVars  == <<pc, resume, batch, idx, isFirst, encoded, werr>>
ioVars  == <<io, clientAborted, stalled>>
pqVars  == <<tmpExists, pqRows, pqClosed, filePos, unlinkPending>>
procVars == <<errPending, crashed>>
jobVars == <<store, req, lastRes, inflight>>
routeVars == <<route, dlId, resStatus, errBody, headers>>
poolVars == <<poolTotal, poolIdle, poolQueue, poolEvent>>
encVars == <<encIn, encOut>>
benchVars == <<benchPc, benchIdx, benchRunning, benchOutcome, results, benchRes,
               benchServed, benchOpening, benchFiles>>
vars    == <<cfgVars, genVars, wrVars, ioVars, pqVars, procVars, jobVars,
             routeVars, poolVars, encVars, benchVars>>

\* ---- bytes ----------------------------------------------------------------
\* An output byte run is a token <<kind, row, gz>>: kind names the literal the
\* code writes, row is the id of the encoded row (0 for framing), gz = 1 when
\* the token went through the gzip Transform.
Tok(k, r) == <<k, r, 0>>
Gz(t) == <<t[1], t[2], 1>>
GzAll(chunk) == [i \in DOMAIN chunk |-> Gz(chunk[i])]

Min(a, b) == IF a < b THEN a ELSE b

RECURSIVE Flat(_)
Flat(chunks) == IF chunks = <<>> THEN <<>> ELSE Head(chunks) \o Flat(Tail(chunks))

IsPrefix(s, t) == Len(s) <= Len(t) /\ SubSeq(t, 1, Len(s)) = s

\* rows of public.records in ORDER BY id order
Table == [i \in 1..nrows |-> i]

\* ---- stream wiring ---------------------------------------------------------
\* the stream the writer itself writes to
Sink == IF fmt = "csv" THEN "csv" ELSE IF compress THEN "gz" ELSE "res"
\* pipe() destination of a Transform
Dest(s) == IF s = "csv" /\ compress THEN "gz" ELSE "res"
Active(s) == CASE s = "csv" -> fmt = "csv"
               [] s = "gz"  -> compress
               [] OTHER     -> TRUE

Dead(S, s) == S.destroyed[s] \/ S.ended[s]

\* chunks a Transform pushes for one written chunk
Xform(S, s, chunk) ==
  IF s = "csv"
  THEN (IF S.hdr THEN <<>> ELSE << <<Tok("header", 0)>> >>)
       \o << [i \in DOMAIN chunk |-> Tok("line", chunk[i][2])] >>
  ELSE << GzAll(chunk) >>

\* chunks a Transform pushes from _flush when end() is called
Flush(S, s) ==
  CASE s = "csv" -> IF S.hdr THEN <<>> ELSE << <<Tok("header", 0)>> >>
    [] s = "gz"  -> << <<Gz(Tok("trailer", 0))>> >>
    [] OTHER     -> <<>>

\* possible return values of stream.write(chunk)
WriteOk(S, s, chunk) ==
  IF Dead(S, s) THEN {FALSE}
  ELSE IF s = "res" THEN (IF S.needDrain[s] THEN {FALSE} ELSE BOOLEAN)
  ELSE {Len(S.q[s]) + Len(Xform(S, s, chunk)) < HWM}

\* plausible bug: an ended stream still takes what is written to it
StreamWrite_AfterEnd(S, s, chunk, ok) ==
  IF S.destroyed[s]
  THEN [S EXCEPT !.needDrain[s] = TRUE, !.pend[s] = @ + 1]
  ELSE LET S1 == IF s = "res"
                 THEN [S EXCEPT !.out = @ \o chunk]
                 ELSE [S EXCEPT !.q[s] = @ \o Xform(S, s, chunk),
                                !.hdr = IF s = "csv" THEN TRUE ELSE @]
       IN IF ok THEN S1
          ELSE [S1 EXCEPT !.needDrain[s] = TRUE, !.pend[s] = @ + 1]

\* state of the streams after stream.write(chunk) returned `ok`: a live stream
\* buffers the chunk whatever it returns, an ended or destroyed one drops it
StreamWrite(S, s, chunk, ok) ==
  IF Dead(S, s)
  THEN [S EXCEPT !.needDrain[s] = TRUE, !.pend[s] = @ + 1]
  ELSE LET S1 == IF s = "res"
                 THEN [S EXCEPT !.out = @ \o chunk]
                 ELSE [S EXCEPT !.q[s] = @ \o Xform(S, s, chunk),
                                !.hdr = IF s = "csv" THEN TRUE ELSE @]
       IN IF ok THEN S1
          ELSE [S1 EXCEPT !.needDrain[s] = TRUE, !.pend[s] = @ + 1]

\* state of the streams after stream.end()
StreamEnd(S, s) ==
  IF S.ended[s] THEN S
  ELSE IF S.destroyed[s] THEN [S EXCEPT !.ended[s] = TRUE]
  ELSE [S EXCEPT !.ended[s] = TRUE,
                 !.q[s] = @ \o Flush(S, s),
                 !.hdr = IF s = "csv" THEN TRUE ELSE @]

StreamDestroy(S, s) == [S EXCEPT !.destroyed[s] = TRUE]

\* ---- request values ----------------------------------------------------------
\* A value of the parsed JSON body: its JavaScript type and, for a string, its
\* text.  A missing property reads as undefined.
Undef == [t |-> "undefined", v |-> ""]
Null == [t |-> "null", v |-> ""]
Str(x) == [t |-> "string", v |-> x]
Num(x) == [t |-> "number", v |-> x]

\* JavaScript truthiness, as `!x` and `x && ...` test it
Truthy(x) == CASE x.t = "string" -> x.v # ""
               [] x.t = "number" -> x.v # "0"
               [] OTHER -> FALSE

\* one element of the columns array: an object with source and target, or null
Col(src, tgt) == [t |-> "object", source |-> src, target |-> tgt]
NullCol == [t |-> "null", source |-> Undef, target |-> Undef]

\* the columns property: absent, a non-array value, or an array of elements
NoCols == [t |-> "undefined", items |-> <<>>]
NotArray == [t |-> "string", items |-> <<>>]
Arr(items) == [t |-> "array", items |-> items]

\* a POST body as express.json() hands it to the handler, and "no request"
Body(format, columns, compression) ==
  [format |-> format, columns |-> columns, compression |-> compression]
NoRequest == [format |-> Null, columns |-> NoCols, compression |-> Null]

\* an answer: status code and, for 201, the exportId in the body
Response(status, id) == [status |-> status, exportId |-> id]
NoResponse == Response(0, 0)

VALID_FORMATS == {"csv", "json", "xml", "parquet"}
VALID_COMPRESSIONS == {"gzip"}
ALLOWED_COLUMNS == {"id", "created_at", "name", "value", "metadata"}

\* Set.has(x) for a set of strings: strict equality, so only a string matches
Has(S, x) == x.t = "string" /\ x.v \in S

\* ---- jobs.js ------------------------------------------------------------------
\* The store maps exportId to job; ids are numbered in order of creation, the
\* n-th uuidv4() being n (a v4 UUID is taken never to repeat).
\* plausible bug: the id is not fresh, store.set() replaces the job created last
createJob_ReusesId(st, format, columns, compression) ==
  IF st = <<>>
  THEN <<[exportId |-> 1, format |-> format, columns |-> columns,
          compression |-> IF Truthy(compression) THEN compression ELSE Null,
          status |-> "pending"]>>
  ELSE [st EXCEPT ![Len(st)] =
          [exportId |-> Len(st), format |-> format, columns |-> columns,
           compression |-> IF Truthy(compression) THEN compression ELSE Null,
           status |-> "pending"]]

createJob(st, format, columns, compression) ==
  Append(st, [exportId |-> Len(st) + 1,
              format |-> format,
              columns |-> columns,
              compression |-> IF Truthy(compression) THEN compression ELSE Null,
              status |-> "pending"])

HasJob(st, id) == id \in DOMAIN st

getJob(st, id) == st[id]

updateJobStatus(st, id, status) ==
  IF HasJob(st, id) THEN [st EXCEPT ![id].status = status] ELSE st

\* ---- initial state: the route handler has just called the writer ----------
\* no connection, no cursor, fresh streams, no temp file, a live process
NothingStarted ==
  /\ gen = "fresh" /\ cursorPos = 0 /\ cursor = "none" /\ connHeld = FALSE
  /\ nAcquired = 0 /\ nReleased = 0 /\ genExit = "none" /\ relCursor = "none"
  /\ yielded = <<>>
  /\ resume = "none" /\ batch = <<>> /\ idx = 1 /\ isFirst = TRUE
  /\ encoded = <<>> /\ werr = FALSE
  /\ io = [q |-> [s \in Streams |-> <<>>],
           needDrain |-> [s \in Streams |-> FALSE],
           ended |-> [s \in Streams |-> FALSE],
           destroyed |-> [s \in Streams |-> FALSE],
           eof |-> [s \in Streams |-> FALSE],
           pend |-> [s \in Streams |-> 0],
           hdr |-> FALSE,
           out |-> <<>>]
  /\ clientAborted = FALSE /\ stalled = FALSE
  /\ tmpExists = FALSE /\ pqRows = <<>> /\ pqClosed = FALSE /\ filePos = 0
  /\ unlinkPending = FALSE
  /\ errPending = FALSE /\ crashed = FALSE

\* const compress = job.compression === 'gzip'
CompressFlag(job) == job.compression = Str("gzip")

\* no header set on the response yet
NoHeaders == [type |-> "none", filename |-> <<>>, encoding |-> "none"]

\* res.setHeader('Content-Type', ...) of each writer
ContentType(f) ==
  CASE f = "csv" -> "text/csv"
    [] f = "json" -> "application/json"
    [] f = "xml" -> "application/xml"
    [] f = "parquet" -> "application/vnd.apache.parquet"

\* plausible bug: the filename gets its '.gz' suffix but Content-Encoding is
\* not set
WriterHeaders_NoEncoding(f, z) ==
  IF f = "parquet"
  THEN [type |-> ContentType(f), filename |-> <<"export", f>>,
        encoding |-> "none"]
  ELSE [type |-> ContentType(f),
        filename |-> IF z THEN <<"export", f, "gz">> ELSE <<"export", f>>,
        encoding |-> "none"]

\* the headers writer f sets before its try block, z being its compress
\* argument; the filename is 'export.<f>' followed by '.gz' when z.
\* writeParquet has no compress argument and sets no Content-Encoding
WriterHeaders(f, z) ==
  IF f = "parquet"
  THEN [type |-> ContentType(f), filename |-> <<"export", f>>,
        encoding |-> "none"]
  ELSE [type |-> ContentType(f),
        filename |-> IF z THEN <<"export", f, "gz">> ELSE <<"export", f>>,
        encoding |-> IF z THEN "gzip" ELSE "none"]

\* the pool has created no client; no record is being encoded
NoPool ==
  poolTotal = 0 /\ poolIdle = 0 /\ poolQueue = <<>> /\ poolEvent = "none"
\* no benchmark request has been received
NoEntry == [format |-> "none", durationSeconds |-> 0, fileSizeBytes |-> 0,
            peakMemoryMB |-> 0, error |-> FALSE]
NoOutcome == [state |-> "none", result |-> NoEntry]
NoBenchResponse == [status |-> 0, datasetRowCount |-> 0, results |-> <<>>]
NoBenchmark ==
  /\ benchPc = "idle" /\ benchIdx = 0 /\ benchRunning = {}
  /\ benchOutcome = NoOutcome /\ results = <<>> /\ benchRes = NoBenchResponse
  /\ benchServed = 0 /\ benchOpening = 0 /\ benchFiles = 0
NoEncoding ==
  /\ encIn = [columns |-> <<>>, row |-> <<>>]
  /\ encOut = [op |-> "none", header |-> <<>>, line |-> <<>>, xml |-> <<>>,
               schema |-> <<>>, record |-> <<>>, threw |-> FALSE]

\* the download variables at the call of the writer for job `id` of store `st`
\* (exports.js:76-98: the writer is chosen by job.format, and
\* compress = job.compression === 'gzip' is passed to the text writers only)
StartDownload(st, id) ==
  /\ dlId = id
  /\ route = "awaiting"
  /\ resStatus = 200 /\ errBody = FALSE
  /\ fmt = st[id].format.v
  /\ compress = (st[id].format.v # "parquet" /\ CompressFlag(st[id]))
  /\ headers = WriterHeaders(fmt, compress)
  /\ pc = CASE fmt \in {"json", "xml"} -> "open"
            [] fmt = "csv" -> "pull"
            [] OTHER -> "pqOpen"

\* a download request for an id the store does not hold has reached the
\* handler: no writer is chosen
StartUnknown(id) ==
  /\ dlId = id
  /\ route = "received"
  /\ resStatus = 200 /\ errBody = FALSE
  /\ fmt = "none" /\ compress = FALSE
  /\ headers = NoHeaders
  /\ pc = "idle"

\* the store holds one job, created by an accepted POST; a download request
\* names it, for the first time (status pending) or again (status complete),
\* or names an id that is not in the store
Init ==
  /\ \E f \in VALID_FORMATS, z \in {Undef, Str("gzip")},
        s0 \in {"pending", "complete"} :
       /\ ~(f = "parquet" /\ z = Str("gzip"))
       /\ store = updateJobStatus(
                    createJob(<<>>, Str(f), <<Col(Str("id"), Str("ID"))>>, z),
                    1, s0)
  /\ req = NoRequest /\ lastRes = NoResponse /\ inflight = <<>>
  /\ NoBenchmark
  /\ \/ StartDownload(store, Len(store))
     \/ StartUnknown(Len(store) + 1)
  /\ batchSize \in 1..MaxBatch
  /\ nrows \in 0..MaxRows
  /\ bad \in {{}} \cup {{r} : r \in 1..nrows}
  /\ fmt = "csv" => bad = {}
  /\ NothingStarted
  /\ NoPool /\ NoEncoding

\* ---- streamRows (db.js) ----------------------------------------------------
\* plausible bug: the cursor is asked for one row more than the batch size
ReadRows_OneTooMany ==
  SubSeq(Table, cursorPos + 1, Min(cursorPos + batchSize + 1, nrows))

\* rows one cursor.read(size) returns at the current cursor position
ReadRows == SubSeq(Table, cursorPos + 1, Min(cursorPos + batchSize, nrows))

\* where the writer continues when the for-await loop ends normally
AfterLoop == CASE fmt \in {"json", "xml"} -> "close"
               [] fmt = "csv" -> "end"
               [] OTHER -> "pqClose"

\* finally { client.release() }; c is the cursor's state at that moment
Finally(c) ==
  /\ connHeld' = FALSE
  /\ nReleased' = nReleased + 1
  /\ relCursor' = c

\* for-await asks the generator for the next batch: the first next() runs the
\* body up to `await pool.connect()`, a later one resumes after `yield` and
\* issues the next cursor.read
Pull ==
  /\ pc = "pull"
  /\ gen \in {"fresh", "yielded"}
  /\ gen' = IF gen = "fresh" THEN "connecting" ELSE "reading"
  /\ pc' = "awaitNext"
  /\ batch' = <<>>
  /\ UNCHANGED <<benchVars, poolVars, encVars,
                 jobVars, routeVars, cfgVars, procVars, cursorPos, cursor, connHeld, nAcquired, nReleased,
                 genExit, relCursor, yielded, resume, idx, isFirst, encoded,
                 werr, ioVars, pqVars>>

\* pool.connect() resolves; the cursor is submitted and the first read issued
ConnectOk ==
  /\ gen = "connecting"
  /\ connHeld' = TRUE
  /\ nAcquired' = nAcquired + 1
  /\ cursor' = "open"
  /\ gen' = "reading"
  /\ UNCHANGED <<benchVars, poolVars, encVars,
                 jobVars, routeVars, cfgVars, procVars, cursorPos, nReleased, genExit, relCursor, yielded,
                 wrVars, ioVars, pqVars>>

\* pool.connect() rejects (timeout / database down): thrown before the try
ConnectFail ==
  /\ gen = "connecting"
  /\ gen' = "done"
  /\ genExit' = "connectFail"
  /\ pc' = "catch"
  /\ UNCHANGED <<benchVars, poolVars, encVars,
                 jobVars, routeVars, cfgVars, procVars, cursorPos, cursor, connHeld, nAcquired, nReleased,
                 relCursor, yielded, resume, batch, idx, isFirst, encoded,
                 werr, ioVars, pqVars>>

\* plausible bug: the generator reads ahead instead of suspending at yield
ReadOk_Prefetch ==
  /\ gen = "reading"
  /\ cursorPos' = cursorPos + Len(ReadRows)
  /\ IF Len(ReadRows) = 0
     THEN /\ gen' = "closing"
          /\ UNCHANGED <<yielded, pc, batch, idx>>
     ELSE /\ gen' = "reading"
          /\ yielded' = yielded \o ReadRows
          /\ batch' = ReadRows
          /\ idx' = 1
          /\ pc' = "row"
  /\ UNCHANGED <<benchVars, poolVars, encVars,
                 jobVars, routeVars, cfgVars, procVars, cursor, connHeld, nAcquired, nReleased, genExit,
                 relCursor, resume, isFirst, encoded, werr, ioVars, pqVars>>

\* cursor.read(size) resolves: an empty result breaks out of the loop and
\* awaits cursor.close(); otherwise the batch is yielded to the consumer
ReadOk ==
  /\ gen = "reading"
  /\ cursorPos' = cursorPos + Len(ReadRows)
  /\ IF Len(ReadRows) = 0
     THEN /\ gen' = "closing"
          /\ UNCHANGED <<yielded, pc, batch, idx>>
     ELSE /\ gen' = "yielded"
          /\ yielded' = yielded \o ReadRows
          /\ batch' = ReadRows
          /\ idx' = 1
          /\ pc' = "row"
  /\ UNCHANGED <<benchVars, poolVars, encVars,
                 jobVars, routeVars, cfgVars, procVars, cursor, connHeld, nAcquired, nReleased, genExit,
                 relCursor, resume, isFirst, encoded, werr, ioVars, pqVars>>

\* cursor.read(size) rejects: control jumps to finally, cursor.close() is
\* skipped, the error reaches the consumer's for-await
\* plausible bug: a failed read is retried on a fresh connection
ReadFail_Retry ==
  /\ gen = "reading"
  /\ Finally(cursor)
  /\ gen' = "connecting"
  /\ genExit' = "readFail"
  /\ UNCHANGED <<benchVars, poolVars, encVars,
                 jobVars, routeVars, cfgVars, procVars, cursorPos, cursor, nAcquired, yielded, wrVars,
                 ioVars, pqVars>>

ReadFail ==
  /\ gen = "reading"
  /\ Finally(cursor)
  /\ gen' = "done"
  /\ genExit' = "readFail"
  /\ pc' = "catch"
  /\ UNCHANGED <<benchVars, poolVars, encVars,
                 jobVars, routeVars, cfgVars, procVars, cursorPos, cursor, nAcquired, yielded, resume,
                 batch, idx, isFirst, encoded, werr, ioVars, pqVars>>

\* cursor.close() resolves, then finally, then the generator completes
CloseOk ==
  /\ gen = "closing"
  /\ cursor' = "closed"
  /\ Finally("closed")
  /\ gen' = "done"
  /\ genExit' = "exhausted"
  /\ pc' = AfterLoop
  /\ UNCHANGED <<benchVars, poolVars, encVars,
                 jobVars, routeVars, cfgVars, procVars, cursorPos, nAcquired, yielded, resume, batch, idx,
                 isFirst, encoded, werr, ioVars, pqVars>>

\* cursor.close() rejects: finally still runs, the error reaches the consumer
CloseFail ==
  /\ gen = "closing"
  /\ Finally(cursor)
  /\ gen' = "done"
  /\ genExit' = "closeFail"
  /\ pc' = "catch"
  /\ UNCHANGED <<benchVars, poolVars, encVars,
                 jobVars, routeVars, cfgVars, procVars, cursorPos, cursor, nAcquired, yielded, resume,
                 batch, idx, isFirst, encoded, werr, ioVars, pqVars>>

\* plausible bug: early exit of the consumer skips the release
GenReturn_NoRelease ==
  /\ gen = "yielded"
  /\ gen' = "done"
  /\ genExit' = "return"
  /\ UNCHANGED <<connHeld, nReleased, relCursor>>

\* the consumer leaves for-await early: generator.return() resumes the body at
\* the yield with a return completion, so only the finally block runs
GenReturn ==
  /\ gen = "yielded"
  /\ Finally(cursor)
  /\ gen' = "done"
  /\ genExit' = "return"

\* ---- writer helpers ----------------------------------------------------------
\* plausible bug: the writer ignores the return value of sink.write
Write_NoWait(chunk, next) ==
  \E ok \in WriteOk(io, Sink, chunk) :
    /\ io' = StreamWrite(io, Sink, chunk, ok)
    /\ pc' = next
    /\ resume' = "none"
    /\ stalled' = (stalled \/ ~ok)

\* plausible bug: after a stall the writer continues at the head of the batch
\* loop instead of where it stopped
Write_ResumeAtLoopHead(chunk, next) ==
  \E ok \in WriteOk(io, Sink, chunk) :
    /\ io' = StreamWrite(io, Sink, chunk, ok)
    /\ pc' = IF ok THEN next ELSE "waitDrain"
    /\ resume' = IF ok THEN "none" ELSE "pull"
    /\ stalled' = (stalled \/ ~ok)

\* write(chunk): sink.write, and when it returns false wait for 'drain'
Write(chunk, next) ==
  \E ok \in WriteOk(io, Sink, chunk) :
    /\ io' = StreamWrite(io, Sink, chunk, ok)
    /\ pc' = IF ok THEN next ELSE "waitDrain"
    /\ resume' = IF ok THEN "none" ELSE next
    /\ stalled' = (stalled \/ ~ok)

\* an exception in the loop body: for-await closes the generator, then the
\* exception reaches the writer's catch
BodyThrow ==
  /\ GenReturn
  /\ pc' = "catch"
  /\ UNCHANGED <<benchVars, poolVars, encVars,
                 jobVars, routeVars, cfgVars, procVars, cursorPos, cursor, nAcquired, yielded, resume,
                 batch, idx, isFirst, encoded, werr, ioVars, pqVars>>

\* plausible bug: the row loop stops one row early
NextRowPc_OffByOne == IF idx + 1 < Len(batch) THEN "row" ELSE "pull"

\* `for (const row of batch)`: the next row, or back to for-await after the last
NextRowPc == IF idx < Len(batch) THEN "row" ELSE "pull"

\* ---- writeJson ---------------------------------------------------------------
\* plausible bug: the separator is written before every record
JsonChunk_AlwaysComma(first, r) ==
  <<Tok("comma-nl", 0), Tok("obj", r)>>

JsonChunk(first, r) ==
  IF first THEN <<Tok("nl", 0), Tok("obj", r)>>
  ELSE <<Tok("comma-nl", 0), Tok("obj", r)>>

\* plausible bug: the opening bracket is not written before the rows are pulled
JsonOpen_NotWritten ==
  /\ fmt = "json" /\ pc = "open"
  /\ pc' = "pull"
  /\ UNCHANGED <<benchVars, poolVars, encVars,
                 jobVars, routeVars, cfgVars, procVars, genVars, resume, batch, idx, isFirst, encoded,
                 werr, ioVars, pqVars>>

\* await write('[')
JsonOpen ==
  /\ fmt = "json" /\ pc = "open"
  /\ Write(<<Tok("[", 0)>>, "pull")
  /\ UNCHANGED <<benchVars, poolVars, encVars,
                 jobVars, routeVars, cfgVars, procVars, genVars, batch, idx, isFirst, encoded, werr,
                 clientAborted, pqVars>>

\* plausible bug: the separator flag is reset for every batch
JsonRow_FlagPerBatch ==
  /\ fmt = "json" /\ pc = "row"
  /\ batch[idx] \notin bad
  /\ Write(JsonChunk(idx = 1, batch[idx]), NextRowPc)
  /\ idx' = idx + 1
  /\ isFirst' = FALSE
  /\ encoded' = Append(encoded, batch[idx])
  /\ UNCHANGED <<benchVars, poolVars, encVars,
                 jobVars, routeVars, cfgVars, procVars, genVars, batch, werr, clientAborted, pqVars>>

\* one iteration of `for (const row of batch)`: stringify, write, clear isFirst
\* (isFirst is cleared when the awaited write completes; nothing reads it in
\* between, so it is cleared with the write here)
JsonRow ==
  /\ fmt = "json" /\ pc = "row"
  /\ batch[idx] \notin bad
  /\ Write(JsonChunk(isFirst, batch[idx]), NextRowPc)
  /\ idx' = idx + 1
  /\ isFirst' = FALSE
  /\ encoded' = Append(encoded, batch[idx])
  /\ UNCHANGED <<benchVars, poolVars, encVars,
                 jobVars, routeVars, cfgVars, procVars, genVars, batch, werr, clientAborted, pqVars>>

JsonRowThrow ==
  /\ fmt = "json" /\ pc = "row"
  /\ batch[idx] \in bad
  /\ BodyThrow

JsonClose ==
  /\ fmt = "json" /\ pc = "close"
  /\ Write(<<Tok("nl", 0), Tok("]", 0)>>, "end")
  /\ UNCHANGED <<benchVars, poolVars, encVars,
                 jobVars, routeVars, cfgVars, procVars, genVars, batch, idx, isFirst, encoded, werr,
                 clientAborted, pqVars>>

\* ---- writeXml ----------------------------------------------------------------
RECURSIVE XmlChunk(_)
XmlChunk(rows) ==
  IF rows = <<>> THEN <<>>
  ELSE <<Tok("<record>", 0), Tok("fields", Head(rows)), Tok("</record>", 0)>>
       \o XmlChunk(Tail(rows))

\* plausible bug: the opening root element is left out
XmlOpen_DeclOnly ==
  /\ fmt = "xml" /\ pc = "open"
  /\ Write(<<Tok("<?xml?>", 0)>>, "pull")
  /\ UNCHANGED <<benchVars, poolVars, encVars,
                 jobVars, routeVars, cfgVars, procVars, genVars, batch, idx, isFirst, encoded, werr,
                 clientAborted, pqVars>>

\* write('<?xml version="1.0" encoding="UTF-8"?>\n<records>\n')
XmlOpen ==
  /\ fmt = "xml" /\ pc = "open"
  /\ Write(<<Tok("<?xml?>", 0), Tok("<records>", 0)>>, "pull")
  /\ UNCHANGED <<benchVars, poolVars, encVars,
                 jobVars, routeVars, cfgVars, procVars, genVars, batch, idx, isFirst, encoded, werr,
                 clientAborted, pqVars>>

\* the whole batch is rendered into xmlChunk and written with one write
XmlBatch ==
  /\ fmt = "xml" /\ pc = "row"
  /\ \A i \in DOMAIN batch : batch[i] \notin bad
  /\ Write(XmlChunk(batch), "pull")
  /\ idx' = Len(batch) + 1
  /\ encoded' = encoded \o batch
  /\ UNCHANGED <<benchVars, poolVars, encVars,
                 jobVars, routeVars, cfgVars, procVars, genVars, batch, isFirst, werr, clientAborted,
                 pqVars>>

XmlBatchThrow ==
  /\ fmt = "xml" /\ pc = "row"
  /\ \E i \in DOMAIN batch : batch[i] \in bad
  /\ BodyThrow

XmlClose ==
  /\ fmt = "xml" /\ pc = "close"
  /\ Write(<<Tok("</records>", 0)>>, "end")
  /\ UNCHANGED <<benchVars, poolVars, encVars,
                 jobVars, routeVars, cfgVars, procVars, genVars, batch, idx, isFirst, encoded, werr,
                 clientAborted, pqVars>>

\* ---- writeCsv ----------------------------------------------------------------
\* csvStringifier.write(mapped), awaiting 'drain' when it returns false
CsvRow ==
  /\ fmt = "csv" /\ pc = "row"
  /\ Write(<<Tok("row", batch[idx])>>, NextRowPc)
  /\ idx' = idx + 1
  /\ encoded' = Append(encoded, batch[idx])
  /\ UNCHANGED <<benchVars, poolVars, encVars,
                 jobVars, routeVars, cfgVars, procVars, genVars, batch, isFirst, werr, clientAborted,
                 pqVars>>

\* ---- end of the text writers ---------------------------------------------------
\* sink.end() / csvStringifier.end(): the writer's promise resolves
TextEnd ==
  /\ fmt \in TextFormats /\ pc = "end"
  /\ io' = StreamEnd(io, Sink)
  /\ pc' = "returned"
  /\ UNCHANGED <<benchVars, poolVars, encVars,
                 jobVars, routeVars, cfgVars, procVars, genVars, resume, batch, idx, isFirst, encoded,
                 werr, clientAborted, stalled, pqVars>>

\* catch (err): sink.destroy(err); if (!res.writableEnded) res.end()
\* destroy(err) makes the stream emit 'error' on the next tick.  The response
\* hands the error to its socket (the HTTP server listens there) and the CSV
\* stringifier has the listener of csvWriter.js:44, whose only effect is the
\* same res.end(); the gzip stream of writeJson/writeXml has no 'error'
\* listener, so its event is an unhandled error.
TextCatch ==
  /\ fmt \in TextFormats /\ pc = "catch"
  /\ io' = StreamEnd(StreamDestroy(io, Sink), "res")
  /\ werr' = TRUE
  /\ pc' = "returned"
  /\ errPending' = (Sink = "gz")
  /\ UNCHANGED <<benchVars, poolVars, encVars,
                 jobVars, routeVars, cfgVars, crashed, genVars, resume, batch, idx, isFirst, encoded,
                 clientAborted, stalled, pqVars>>

\* ---- stream machinery (Node.js) -------------------------------------------------
\* pipe(): the source's next buffered chunk is written to the destination; a
\* false return pauses the source until the destination drains
PipeData(s) ==
  /\ Active(s) /\ s # "res"
  /\ io.q[s] # <<>>
  /\ ~io.destroyed[s]
  /\ ~io.needDrain[Dest(s)]
  /\ ~io.destroyed[Dest(s)]
  /\ LET S0 == [io EXCEPT !.q[s] = Tail(@)]
         c  == Head(io.q[s])
     IN \E ok \in WriteOk(S0, Dest(s), c) :
          io' = StreamWrite(S0, Dest(s), c, ok)
  /\ UNCHANGED <<benchVars, poolVars, encVars,
                 jobVars, routeVars, cfgVars, procVars, genVars, wrVars, clientAborted, stalled, pqVars>>

\* pipe(): the source emitted 'end' after its last chunk; dest.end() is called
PipeEnd(s) ==
  /\ Active(s) /\ s # "res"
  /\ io.ended[s] /\ io.q[s] = <<>> /\ ~io.eof[s]
  /\ ~io.destroyed[s]
  /\ ~io.needDrain[Dest(s)]
  /\ ~io.destroyed[Dest(s)]
  /\ io' = StreamEnd([io EXCEPT !.eof[s] = TRUE], Dest(s))
  /\ UNCHANGED <<benchVars, poolVars, encVars,
                 jobVars, routeVars, cfgVars, procVars, genVars, wrVars, clientAborted, stalled, pqVars>>

\* plausible bug: 'drain' is emitted before the writer's listener is attached
Drain_LostWakeup(s) ==
  /\ Active(s)
  /\ io.needDrain[s]
  /\ ~io.destroyed[s] /\ ~io.ended[s]
  /\ s = "res" \/ io.q[s] = <<>>
  /\ io' = [io EXCEPT !.needDrain[s] = FALSE, !.pend[s] = 0]
  /\ UNCHANGED <<benchVars, poolVars, encVars,
                 jobVars, routeVars, cfgVars, procVars, genVars, wrVars,
                 clientAborted, stalled, pqVars>>

\* 'drain': the stream's buffer emptied; a writer waiting on it resumes
Drain(s) ==
  /\ Active(s)
  /\ io.needDrain[s]
  /\ ~io.destroyed[s] /\ ~io.ended[s]
  /\ s = "res" \/ io.q[s] = <<>>
  /\ io' = [io EXCEPT !.needDrain[s] = FALSE, !.pend[s] = 0]
  /\ IF pc = "waitDrain" /\ s = Sink
     THEN pc' = resume /\ resume' = "none"
     ELSE UNCHANGED <<pc, resume>>
  /\ UNCHANGED <<benchVars, poolVars, encVars,
                 jobVars, routeVars, cfgVars, procVars, genVars, batch, idx, isFirst, encoded, werr,
                 clientAborted, stalled, pqVars>>

\* the client disconnects: the response is destroyed and emits 'close'
ClientAbort ==
  /\ ~io.ended["res"] /\ ~io.destroyed["res"]
  /\ io' = StreamDestroy(io, "res")
  /\ clientAborted' = TRUE
  /\ UNCHANGED <<benchVars, poolVars, encVars,
                 jobVars, routeVars, cfgVars, procVars, genVars, wrVars, stalled, pqVars>>


\* ---- writeParquet ------------------------------------------------------------
\* bytes of the finished temp file: magic, one record per appended row, footer
File == <<Tok("PAR1", 0)>> \o [i \in DOMAIN pqRows |-> Tok("prow", pqRows[i])]
        \o <<Tok("footer", 0)>>

\* mkdirSync, buildSchema and ParquetWriter.openFile succeed: tmpFile exists
PqOpen ==
  /\ fmt = "parquet" /\ pc = "pqOpen"
  /\ tmpExists' = TRUE
  /\ pc' = "pull"
  /\ UNCHANGED <<benchVars, poolVars, encVars,
                 jobVars, routeVars, cfgVars, procVars, genVars, resume, batch, idx, isFirst, encoded,
                 werr, ioVars, pqRows, pqClosed, filePos, unlinkPending>>

\* one of them throws; the file may or may not have been created already
PqOpenFail ==
  /\ fmt = "parquet" /\ pc = "pqOpen"
  /\ tmpExists' \in BOOLEAN
  /\ pc' = "catch"
  /\ UNCHANGED <<benchVars, poolVars, encVars,
                 jobVars, routeVars, cfgVars, procVars, genVars, resume, batch, idx, isFirst, encoded,
                 werr, ioVars, pqRows, pqClosed, filePos, unlinkPending>>

\* plausible bug: appendRow is called inside the per-column coercion loop, so a
\* row is appended once per column instead of once
PqRow_AppendPerColumn ==
  /\ fmt = "parquet" /\ pc = "row"
  /\ batch[idx] \notin bad
  /\ pqRows' = pqRows \o <<batch[idx], batch[idx]>>
  /\ encoded' = Append(encoded, batch[idx])
  /\ idx' = idx + 1
  /\ pc' = NextRowPc
  /\ UNCHANGED <<benchVars, poolVars, encVars,
                 jobVars, routeVars, cfgVars, procVars, genVars, resume, batch, isFirst, werr, ioVars,
                 tmpExists, pqClosed, filePos, unlinkPending>>

\* coerce one row and await writer.appendRow(record)
PqRow ==
  /\ fmt = "parquet" /\ pc = "row"
  /\ batch[idx] \notin bad
  /\ pqRows' = Append(pqRows, batch[idx])
  /\ encoded' = Append(encoded, batch[idx])
  /\ idx' = idx + 1
  /\ pc' = NextRowPc
  /\ UNCHANGED <<benchVars, poolVars, encVars,
                 jobVars, routeVars, cfgVars, procVars, genVars, resume, batch, isFirst, werr, ioVars,
                 tmpExists, pqClosed, filePos, unlinkPending>>

\* the coercion or appendRow throws for this row
PqRowThrow ==
  /\ fmt = "parquet" /\ pc = "row"
  /\ batch[idx] \in bad
  /\ BodyThrow

\* plausible bug: the file is replayed without awaiting writer.close()
PqClose_NotAwaited ==
  /\ fmt = "parquet" /\ pc = "pqClose"
  /\ pqClosed' = FALSE
  /\ filePos' = 0
  /\ pc' = "pqReplay"
  /\ UNCHANGED <<benchVars, poolVars, encVars,
                 jobVars, routeVars, cfgVars, procVars, genVars, resume, batch, idx, isFirst, encoded,
                 werr, ioVars, tmpExists, pqRows, unlinkPending>>

\* await writer.close() writes the footer; then the read stream is piped
PqClose ==
  /\ fmt = "parquet" /\ pc = "pqClose"
  /\ pqClosed' = TRUE
  /\ filePos' = 0
  /\ pc' = "pqReplay"
  /\ UNCHANGED <<benchVars, poolVars, encVars,
                 jobVars, routeVars, cfgVars, procVars, genVars, resume, batch, idx, isFirst, encoded,
                 werr, ioVars, tmpExists, pqRows, unlinkPending>>

PqCloseFail ==
  /\ fmt = "parquet" /\ pc = "pqClose"
  /\ pc' = "catch"
  /\ UNCHANGED <<benchVars, poolVars, encVars,
                 jobVars, routeVars, cfgVars, procVars, genVars, resume, batch, idx, isFirst, encoded,
                 werr, ioVars, pqVars>>

\* the read stream is reading the file: it is flowing (the response did not
\* ask it to pause) and has bytes left.  A response that was already destroyed
\* when pipe() was called still receives the first chunk, refuses it, and
\* pauses the read stream for good; one destroyed later emits 'close', which
\* unpipes the read stream.
Reading ==
  /\ filePos < Len(File)
  /\ ~io.needDrain["res"]
  /\ ~io.destroyed["res"] \/ filePos = 0

\* readStream.pipe(res): one 'data' chunk is written to the response; a false
\* return pauses the read stream until the response drains
PqData ==
  /\ fmt = "parquet" /\ pc = "pqReplay"
  /\ Reading
  /\ LET c == SubSeq(File, filePos + 1, Min(filePos + ReadChunk, Len(File)))
     IN /\ \E ok \in WriteOk(io, "res", c) :
             /\ io' = StreamWrite(io, "res", c, ok)
             /\ stalled' = (stalled \/ ~ok)
        /\ filePos' = filePos + Len(c)
  /\ UNCHANGED <<benchVars, poolVars, encVars,
                 jobVars, routeVars, cfgVars, procVars, genVars, wrVars, clientAborted, tmpExists, pqRows,
                 pqClosed, unlinkPending>>

\* the flowing read stream emits 'end': pipe ends the response, the promise
\* resolves
PqEnd ==
  /\ fmt = "parquet" /\ pc = "pqReplay"
  /\ filePos = Len(File)
  /\ ~io.needDrain["res"] /\ ~io.destroyed["res"]
  /\ io' = StreamEnd(io, "res")
  /\ pc' = "finally"
  /\ UNCHANGED <<benchVars, poolVars, encVars,
                 jobVars, routeVars, cfgVars, procVars, genVars, resume, batch, idx, isFirst, encoded,
                 werr, clientAborted, stalled, pqVars>>

\* the read stream emits 'error': the promise rejects
PqReadError ==
  /\ fmt = "parquet" /\ pc = "pqReplay"
  /\ Reading
  /\ pc' = "catch"
  /\ UNCHANGED <<benchVars, poolVars, encVars,
                 jobVars, routeVars, cfgVars, procVars, genVars, resume, batch, idx, isFirst, encoded,
                 werr, ioVars, pqVars>>

\* plausible bug: the catch block answers with a 500 JSON error whatever was
\* already sent
PqCatch_SendsJson ==
  /\ fmt = "parquet" /\ pc = "catch"
  /\ io' = StreamEnd(io, "res")
  /\ werr' = TRUE
  /\ pc' = "finally"
  /\ resStatus' = 500
  /\ errBody' = TRUE
  /\ UNCHANGED <<benchVars, poolVars, encVars,
                 jobVars, route, dlId, headers, cfgVars, procVars, genVars, resume, batch,
                 idx, isFirst, encoded, clientAborted, stalled, pqVars>>

\* catch (err): if (!res.writableEnded) res.end()
PqCatch ==
  /\ fmt = "parquet" /\ pc = "catch"
  /\ io' = StreamEnd(io, "res")
  /\ werr' = TRUE
  /\ pc' = "finally"
  /\ UNCHANGED <<benchVars, poolVars, encVars,
                 jobVars, routeVars, cfgVars, procVars, genVars, resume, batch, idx, isFirst, encoded,
                 clientAborted, stalled, pqVars>>

\* finally: fs.unlink(tmpFile, cb) is started and the function returns
PqFinally ==
  /\ fmt = "parquet" /\ pc = "finally"
  /\ unlinkPending' = TRUE
  /\ pc' = "returned"
  /\ UNCHANGED <<benchVars, poolVars, encVars,
                 jobVars, routeVars, cfgVars, procVars, genVars, resume, batch, idx, isFirst, encoded,
                 werr, ioVars, tmpExists, pqRows, pqClosed, filePos>>

\* the unlink completes on the thread pool
UnlinkDone ==
  /\ unlinkPending
  /\ unlinkPending' = FALSE
  /\ tmpExists' = FALSE
  /\ UNCHANGED <<benchVars, poolVars, encVars,
                 jobVars, routeVars, cfgVars, procVars, genVars, wrVars, ioVars, pqRows, pqClosed,
                 filePos>>

\* ---- GET /exports/:id/download (routes/exports.js) -------------------------------
\* res.headersSent: the head goes out with the first write or with end()
HeadersSent == io.out # <<>> \/ io.ended["res"]

\* the promise of the writer rejects.  Every writer wraps its whole body in
\* try/catch and its catch block only logs, destroys or ends streams: it never
\* rethrows, so the promise the route awaits always resolves.
WriterRejected == FALSE

\* plausible bug: the handler returns without recording the outcome
RouteSettle_NoUpdate ==
  /\ route = "awaiting" /\ pc = "returned"
  /\ route' = "done"
  /\ UNCHANGED <<benchVars, poolVars, encVars,
                 jobVars, dlId, headers, resStatus, errBody, cfgVars, genVars, wrVars,
                 ioVars, pqVars, procVars>>

\* plausible bug: the error body is sent without .status(404)
NotFound_Status200 ==
  /\ route = "received" /\ ~HasJob(store, dlId)
  /\ errBody' = TRUE
  /\ headers' = [NoHeaders EXCEPT !.type = "application/json"]
  /\ io' = StreamEnd(io, "res")
  /\ route' = "done"
  /\ UNCHANGED <<benchVars, poolVars, encVars, jobVars, dlId, resStatus, cfgVars, genVars,
                 wrVars, clientAborted, stalled, pqVars, procVars>>

\* const job = getJob(req.params.id); if (!job) return
\* res.status(404).json({ error: 'Export job not found.' })
NotFound ==
  /\ route = "received" /\ ~HasJob(store, dlId)
  /\ resStatus' = 404
  /\ errBody' = TRUE
  /\ headers' = [NoHeaders EXCEPT !.type = "application/json"]
  /\ io' = StreamEnd(io, "res")
  /\ route' = "done"
  /\ UNCHANGED <<benchVars, poolVars, encVars, jobVars, dlId, cfgVars, genVars, wrVars,
                 clientAborted, stalled, pqVars, procVars>>

\* the await of the writer completes: the try block continues with
\* updateJobStatus(id, 'complete'); the catch block (status 'error', then a 500
\* JSON body if the head was not sent, else res.end()) runs on a rejection.
\* The continuation is a microtask: it runs before the next-tick 'error' event
\* of a destroyed gzip stream.
RouteSettle ==
  /\ route = "awaiting" /\ pc = "returned"
  /\ route' = "done"
  /\ IF WriterRejected
     THEN /\ store' = updateJobStatus(store, dlId, "error")
          /\ resStatus' = IF HeadersSent THEN resStatus ELSE 500
          /\ errBody' = ~HeadersSent
          /\ io' = StreamEnd(io, "res")
     ELSE /\ store' = updateJobStatus(store, dlId, "complete")
          /\ UNCHANGED <<resStatus, errBody, io>>
  /\ UNCHANGED <<benchVars, poolVars, encVars, req, lastRes, inflight, dlId, headers, cfgVars, genVars, wrVars, clientAborted,
                 stalled, pqVars, procVars>>

\* ---- POST /exports (routes/exports.js) ---------------------------------------------
\* request bodies tried: every combination of these property values
FormatInputs == {Undef, Str("csv"), Str("json"), Str("xml"), Str("parquet"),
                 Str("avro")}
CompressionInputs == {Undef, Str("gzip"), Str("zip"), Str("")}
ColumnsInputs ==
  {NoCols, NotArray, Arr(<<>>),
   Arr(<<Col(Str("id"), Str("ID"))>>),
   Arr(<<Col(Str("id"), Str("ID")), Col(Str("name"), Str("Name"))>>),
   Arr(<<Col(Str("bogus"), Str("B"))>>),
   Arr(<<Col(Str("id"), Str("ID")), Col(Str("bogus"), Str("B"))>>),
   Arr(<<Col(Undef, Str("X"))>>),
   Arr(<<Col(Str(""), Str("X"))>>),
   Arr(<<Col(Str("id"), Undef)>>),
   Arr(<<Col(Num("5"), Str("N"))>>),
   Arr(<<Col(Str("id"), Num("5"))>>),
   Arr(<<NullCol>>),
   Arr(<<Col(Str("id"), Str("ID")), NullCol>>),
   Arr(<<Col(Str("bogus"), Undef), NullCol>>)}
Bodies == {Body(f, c, z) : f \in FormatInputs, c \in ColumnsInputs,
                           z \in CompressionInputs}

\* the for-of loop over columns: "bad" when it returns the 400 for an element,
\* "throw" when reading col.source of null raises a TypeError, else "ok"
RECURSIVE CheckColumns(_)
CheckColumns(items) ==
  IF items = <<>> THEN "ok"
  ELSE LET col == Head(items) IN
       IF col.t = "null" THEN "throw"
       ELSE IF \/ ~Truthy(col.source) \/ ~Truthy(col.target)
               \/ col.source.t # "string" \/ col.target.t # "string"
            THEN "bad"
            ELSE CheckColumns(Tail(items))

\* buildSelectClause(columns) throws: some source is not in the allowlist
buildSelectClauseThrows(items) ==
  \E i \in DOMAIN items : ~Has(ALLOWED_COLUMNS, items[i].source)

\* plausible bug: the parquet + gzip check is missing
PostStatus_NoParquetCheck(b) ==
  IF ~Truthy(b.format) \/ ~Has(VALID_FORMATS, b.format) THEN 400
  ELSE IF b.columns.t # "array" \/ Len(b.columns.items) = 0 THEN 400
  ELSE IF CheckColumns(b.columns.items) = "throw" THEN 500
  ELSE IF CheckColumns(b.columns.items) = "bad" THEN 400
  ELSE IF Truthy(b.compression) /\ ~Has(VALID_COMPRESSIONS, b.compression)
       THEN 400
  ELSE IF buildSelectClauseThrows(b.columns.items) THEN 400
  ELSE 201

\* status code the handler answers with, its checks taken in the code's order;
\* the TypeError is thrown synchronously, Express passes it to the error
\* handler of index.js, which answers 500
PostStatus(b) ==
  IF ~Truthy(b.format) \/ ~Has(VALID_FORMATS, b.format) THEN 400
  ELSE IF b.columns.t # "array" \/ Len(b.columns.items) = 0 THEN 400
  ELSE IF CheckColumns(b.columns.items) = "throw" THEN 500
  ELSE IF CheckColumns(b.columns.items) = "bad" THEN 400
  ELSE IF Truthy(b.compression) /\ ~Has(VALID_COMPRESSIONS, b.compression)
       THEN 400
  ELSE IF buildSelectClauseThrows(b.columns.items) THEN 400
  ELSE IF b.format = Str("parquet") /\ b.compression = Str("gzip") THEN 400
  ELSE 201

\* express.json() has parsed the body of a POST /exports request
Receive(b) ==
  /\ req = NoRequest
  /\ Len(store) < MaxJobs
  /\ req' = b
  /\ lastRes' = NoResponse
  /\ UNCHANGED <<benchVars, poolVars, encVars, store, inflight, routeVars, cfgVars, genVars,
                 wrVars, ioVars, pqVars, procVars>>

\* router.post('/'): validate, create the job, answer
PostExports ==
  /\ req # NoRequest
  /\ IF PostStatus(req) = 201
     THEN /\ store' = createJob(store, req.format, req.columns.items,
                                req.compression)
          /\ lastRes' = Response(201, store'[Len(store')].exportId)
     ELSE /\ store' = store
          /\ lastRes' = Response(PostStatus(req), 0)
  /\ req' = NoRequest
  /\ UNCHANGED <<benchVars, poolVars, encVars, inflight, routeVars, cfgVars, genVars, wrVars,
                 ioVars, pqVars, procVars>>

\* ---- specification -----------------------------------------------------------------
\* an 'error' event without listener is thrown as an uncaught exception:
\* index.js installs no handler, the process exits
UnhandledError ==
  /\ errPending /\ ~crashed
  /\ route = "done"
  /\ errPending' = FALSE
  /\ crashed' = TRUE
  /\ UNCHANGED <<benchVars, poolVars, encVars,
                 jobVars, routeVars, cfgVars, genVars, wrVars, ioVars, pqVars>>

\* the process is alive; a pending nextTick callback runs before any I/O event
Running == ~crashed /\ ~errPending

\* the database answers a request
DbOk == Running /\ (ConnectOk \/ ReadOk \/ CloseOk)

\* the writer coroutine runs its next continuation
WriterStep ==
  /\ Running
  /\ \/ Pull
     \/ JsonOpen \/ JsonRow \/ JsonRowThrow \/ JsonClose
     \/ XmlOpen \/ XmlBatch \/ XmlBatchThrow \/ XmlClose
     \/ CsvRow
     \/ TextEnd \/ TextCatch
     \/ PqOpen \/ PqRow \/ PqRowThrow \/ PqClose \/ PqCatch \/ PqFinally

\* the streams move buffered data
StreamStep ==
  /\ Running
  /\ \/ \E s \in Streams : PipeData(s)
     \/ \E s \in Streams : PipeEnd(s)
     \/ \E s \in Streams : Drain(s)
     \/ PqData \/ PqEnd
     \/ UnlinkDone

\* failures of the environment and the client's disconnect
Fault ==
  /\ Running
  /\ \/ ConnectFail \/ ReadFail \/ CloseFail
     \/ PqOpenFail \/ PqCloseFail \/ PqReadError
     \/ ClientAbort

\* the route handler continues after the writer
RouteStep == ~crashed /\ (RouteSettle \/ NotFound)

Next == DbOk \/ WriterStep \/ StreamStep \/ Fault \/ RouteStep \/ UnhandledError

Spec == Init /\ [][Next]_vars

\* The event loop runs every ready continuation, the database answers every
\* request and a live stream flushes its buffer; faults and the client's
\* disconnect may or may not happen.
FairSpec ==
  /\ Spec
  /\ WF_vars(DbOk) /\ WF_vars(WriterStep) /\ WF_vars(StreamStep)
  /\ WF_vars(RouteStep) /\ WF_vars(UnhandledError)

\* the server has started: the store is empty and no download is running
PostInit ==
  /\ store = <<>> /\ req = NoRequest /\ lastRes = NoResponse
  /\ inflight = <<>>
  /\ NoBenchmark
  /\ route = "idle" /\ dlId = 0 /\ resStatus = 0 /\ errBody = FALSE
  /\ headers = NoHeaders
  /\ NoPool /\ NoEncoding
  /\ fmt = "none" /\ compress = FALSE
  /\ batchSize = 1 /\ nrows = 0 /\ bad = {}
  /\ pc = "idle"
  /\ NothingStarted

PostNext == (\E b \in Bodies : Receive(b)) \/ PostExports

\* job creation alone: POST /exports requests handled one after the other
PostSpec == PostInit /\ [][PostNext]_vars

\* ---- jobs and their downloads together (routes/exports.js, jobs.js) --------------
\* download handlers that may be awaiting their writer at the same time
MaxInflight == 2

\* request bodies of the job/download runs: two that are accepted, one that is
\* refused
JobBodies ==
  {Body(Str("csv"), Arr(<<Col(Str("id"), Str("ID"))>>), Undef),
   Body(Str("json"),
        Arr(<<Col(Str("id"), Str("ID")), Col(Str("name"), Str("Name"))>>),
        Str("gzip")),
   Body(Str("avro"), Arr(<<Col(Str("id"), Str("ID"))>>), Undef)}

\* the i-th element taken out of a sequence
RemoveAt(q, i) == SubSeq(q, 1, i - 1) \o SubSeq(q, i + 1, Len(q))

\* plausible bug: a download that starts marks its job as in progress again
DownloadBegin_MarksPending(id) ==
  /\ req = NoRequest
  /\ Len(inflight) < MaxInflight
  /\ inflight' = IF HasJob(store, id)
                 THEN Append(inflight, getJob(store, id).exportId)
                 ELSE inflight
  /\ store' = updateJobStatus(store, id, "pending")
  /\ UNCHANGED <<benchVars, poolVars, encVars, req, lastRes, routeVars, cfgVars,
                 genVars, wrVars, ioVars, pqVars, procVars>>

\* GET /exports/:id/download reaches the handler: const job = getJob(id); an
\* unknown id is answered 404 at once, otherwise the writer of job.format is
\* called and awaited.  The store is only read.
DownloadBegin(id) ==
  /\ req = NoRequest
  /\ Len(inflight) < MaxInflight
  /\ inflight' = IF HasJob(store, id)
                 THEN Append(inflight, getJob(store, id).exportId)
                 ELSE inflight
  /\ UNCHANGED <<benchVars, poolVars, encVars, store, req, lastRes, routeVars, cfgVars,
                 genVars, wrVars, ioVars, pqVars, procVars>>

\* the writer awaited by the i-th waiting handler has settled:
\* updateJobStatus(job.exportId, 'complete') after the await, or
\* updateJobStatus(job.exportId, 'error') in the catch block
DownloadSettle(i) ==
  /\ req = NoRequest
  /\ store' = updateJobStatus(store, inflight[i],
                              IF WriterRejected THEN "error" ELSE "complete")
  /\ inflight' = RemoveAt(inflight, i)
  /\ UNCHANGED <<benchVars, poolVars, encVars, req, lastRes, routeVars, cfgVars,
                 genVars, wrVars, ioVars, pqVars, procVars>>

JobNext ==
  \/ \E b \in JobBodies : Receive(b)
  \/ PostExports
  \/ \E id \in 1..(MaxJobs + 1) : DownloadBegin(id)
  \/ \E i \in DOMAIN inflight : DownloadSettle(i)

\* POST /exports requests and downloads of the stored jobs in any order, several
\* downloads (of one job or of different jobs) awaiting their writers at once
JobSpec == PostInit /\ [][JobNext]_vars

\* ---- GET /exports/benchmark (routes/benchmark.js) ---------------------------------
\* benchmark requests answered in one run of the model
MaxBenchRequests == 3

DATASET_ROW_COUNT == 10000000

\* const formats = ['csv', 'json', 'xml', 'parquet']
formats == <<"csv", "json", "xml", "parquet">>

\* Object.assign(fileWriteStream, { headersSent: false, writableEnded: false,
\* setHeader }) assigns with [[Set]] and throws when an assignment fails.
\* writableEnded is an accessor of Writable.prototype with a getter and no
\* setter (Node.js 20, the version of the Dockerfile), so the assignment fails
\* and a TypeError is thrown inside the try block, before any writer is called.
MockResThrows == TRUE

\* the entry pushed by the catch block of the route
FailureEntry(format) ==
  [format |-> format, durationSeconds |-> -1, fileSizeBytes |-> -1,
   peakMemoryMB |-> -1, error |-> TRUE]

\* the request reaches the handler: const results = []
BenchGet ==
  /\ ~crashed
  /\ benchPc = "idle"
  /\ benchServed < MaxBenchRequests
  /\ benchPc' = "call"
  /\ benchIdx' = 1
  /\ results' = <<>>
  /\ benchRes' = NoBenchResponse
  /\ UNCHANGED <<benchRunning, benchOutcome, benchServed, benchOpening,
                 benchFiles>>
  /\ UNCHANGED <<poolVars, encVars, jobVars, routeVars, cfgVars, genVars,
                 wrVars, ioVars, pqVars, procVars>>

\* runBenchmark(format) runs up to its first await: the write stream is
\* created (its file is opened later, from the event loop), the memory poller
\* is started, Object.assign throws, the finally block clears the poller and
\* the promise is rejected.  Nothing after the try statement runs: no
\* statSync, no unlink of the temp file, and the write stream is never ended.
BenchCall ==
  /\ benchPc = "call"
  /\ MockResThrows
  /\ benchRunning' = benchRunning \cup {formats[benchIdx]}
  /\ benchOpening' = benchOpening + 1
  /\ benchOutcome' = [state |-> "rejected", result |-> NoEntry]
  /\ benchPc' = "await"
  /\ UNCHANGED <<benchIdx, results, benchRes, benchServed, benchFiles>>
  /\ UNCHANGED <<poolVars, encVars, jobVars, routeVars, cfgVars, genVars,
                 wrVars, ioVars, pqVars, procVars>>

\* plausible bug: the catch block leaves the loop after recording the failure
BenchSettle_StopOnFailure ==
  /\ benchPc = "await"
  /\ benchRunning' = benchRunning \ {formats[benchIdx]}
  /\ results' = Append(results,
                        IF benchOutcome.state = "resolved"
                        THEN benchOutcome.result
                        ELSE FailureEntry(formats[benchIdx]))
  /\ benchOutcome' = NoOutcome
  /\ IF benchIdx = Len(formats) \/ benchOutcome.state = "rejected"
     THEN benchPc' = "respond" /\ benchIdx' = benchIdx
     ELSE benchPc' = "call" /\ benchIdx' = benchIdx + 1
  /\ UNCHANGED <<benchRes, benchServed, benchOpening, benchFiles>>
  /\ UNCHANGED <<poolVars, encVars, jobVars, routeVars, cfgVars, genVars,
                 wrVars, ioVars, pqVars, procVars>>

\* the await of runBenchmark(format) completes: results.push(result) in the
\* try block, or the catch block pushes the entry with -1 metrics and the
\* message; the for-of loop goes on with the next format
BenchSettle ==
  /\ benchPc = "await"
  /\ benchRunning' = benchRunning \ {formats[benchIdx]}
  /\ results' = Append(results,
                        IF benchOutcome.state = "resolved"
                        THEN benchOutcome.result
                        ELSE FailureEntry(formats[benchIdx]))
  /\ benchOutcome' = NoOutcome
  /\ IF benchIdx = Len(formats)
     THEN benchPc' = "respond" /\ benchIdx' = benchIdx
     ELSE benchPc' = "call" /\ benchIdx' = benchIdx + 1
  /\ UNCHANGED <<benchRes, benchServed, benchOpening, benchFiles>>
  /\ UNCHANGED <<poolVars, encVars, jobVars, routeVars, cfgVars, genVars,
                 wrVars, ioVars, pqVars, procVars>>

\* res.status(200).json({ datasetRowCount: DATASET_ROW_COUNT, results })
BenchRespond ==
  /\ benchPc = "respond"
  /\ benchRes' = [status |-> 200, datasetRowCount |-> DATASET_ROW_COUNT,
                  results |-> results]
  /\ benchServed' = benchServed + 1
  /\ benchPc' = "idle"
  /\ UNCHANGED <<benchIdx, benchRunning, benchOutcome, results, benchOpening,
                 benchFiles>>
  /\ UNCHANGED <<poolVars, encVars, jobVars, routeVars, cfgVars, genVars,
                 wrVars, ioVars, pqVars, procVars>>

\* the handler runs from one await to the next in microtasks, so a callback of
\* the file system runs only when the handler has answered.
\* fs.open of a write stream succeeds: the (empty) temp file exists from now on
BenchOpenDone ==
  /\ ~crashed
  /\ benchPc = "idle"
  /\ benchOpening > 0
  /\ benchOpening' = benchOpening - 1
  /\ benchFiles' = benchFiles + 1
  /\ UNCHANGED <<benchPc, benchIdx, benchRunning, benchOutcome, results,
                 benchRes, benchServed>>
  /\ UNCHANGED <<poolVars, encVars, jobVars, routeVars, cfgVars, genVars,
                 wrVars, ioVars, pqVars, procVars>>

\* fs.open of a write stream fails: the stream emits 'error', to which nothing
\* listens (the listener of line 148 was never attached), and the process
\* exits on the uncaught exception
BenchOpenFail ==
  /\ ~crashed
  /\ benchPc = "idle"
  /\ benchOpening > 0
  /\ benchOpening' = benchOpening - 1
  /\ crashed' = TRUE
  /\ UNCHANGED <<benchPc, benchIdx, benchRunning, benchOutcome, results,
                 benchRes, benchServed, benchFiles>>
  /\ UNCHANGED <<poolVars, encVars, jobVars, routeVars, cfgVars, genVars,
                 wrVars, ioVars, pqVars, errPending>>

BenchNext ==
  \/ BenchGet \/ BenchCall \/ BenchSettle \/ BenchRespond
  \/ BenchOpenDone \/ BenchOpenFail

\* benchmark requests alone, handled one after the other
BenchSpec == PostInit /\ [][BenchNext]_vars

\* ---- the connection pool shared by all downloads (db.js) ------------------------
\* pool = new Pool({ max: 10, connectionTimeoutMillis: 5_000, ... }).
\* poolTotal clients exist, poolIdle of them are idle, the others are checked
\* out by running streamRows generators; poolQueue holds, oldest first, the age
\* in ticks of every pool.connect() call that waits for a client; poolEvent
\* names the last thing the pool did.
CheckedOut == poolTotal - poolIdle

Exhausted == poolIdle = 0 /\ poolTotal = PoolMax

\* plausible bug: connect rejects at once when every client is checked out
PoolConnect_FailWhenExhausted ==
  /\ Len(poolQueue) < MaxWaiting
  /\ IF poolIdle > 0
     THEN /\ poolIdle' = poolIdle - 1
          /\ poolEvent' = "acquired"
          /\ UNCHANGED <<poolTotal, poolQueue>>
     ELSE IF poolTotal < PoolMax
     THEN /\ poolTotal' = poolTotal + 1
          /\ poolEvent' = "acquired"
          /\ UNCHANGED <<poolIdle, poolQueue>>
     ELSE /\ poolEvent' = "timeout"
          /\ UNCHANGED <<poolTotal, poolIdle, poolQueue>>

\* `const client = await pool.connect()` of a starting download: an idle
\* client is handed out, else a new client is created below max, else the
\* call is queued with a connectionTimeoutMillis timer
PoolConnect ==
  /\ Len(poolQueue) < MaxWaiting
  /\ IF poolIdle > 0
     THEN /\ poolIdle' = poolIdle - 1
          /\ poolEvent' = "acquired"
          /\ UNCHANGED <<poolTotal, poolQueue>>
     ELSE IF poolTotal < PoolMax
     THEN /\ poolTotal' = poolTotal + 1
          /\ poolEvent' = "acquired"
          /\ UNCHANGED <<poolIdle, poolQueue>>
     ELSE /\ poolQueue' = Append(poolQueue, 0)
          /\ poolEvent' = "queued"
          /\ UNCHANGED <<poolTotal, poolIdle>>

\* `client.release()` in the finally of streamRows: the client goes to the
\* oldest waiting connect, whose timer is cleared, else it becomes idle
PoolRelease ==
  /\ CheckedOut > 0
  /\ IF poolQueue # <<>>
     THEN /\ poolQueue' = Tail(poolQueue)
          /\ poolEvent' = "handed"
          /\ UNCHANGED <<poolTotal, poolIdle>>
     ELSE /\ poolIdle' = poolIdle + 1
          /\ poolEvent' = "released"
          /\ UNCHANGED <<poolTotal, poolQueue>>

\* idleTimeoutMillis: a client idle for 30 s is closed and removed
PoolIdleTimeout ==
  /\ poolIdle > 0
  /\ poolIdle' = poolIdle - 1
  /\ poolTotal' = poolTotal - 1
  /\ poolEvent' = "idleClosed"
  /\ UNCHANGED poolQueue

\* time passes for the waiting connects; a timer that is due fires first
PoolTick ==
  /\ poolQueue # <<>>
  /\ \A i \in DOMAIN poolQueue : poolQueue[i] < TimeoutTicks
  /\ poolQueue' = [i \in DOMAIN poolQueue |-> poolQueue[i] + 1]
  /\ poolEvent' = "tick"
  /\ UNCHANGED <<poolTotal, poolIdle>>

\* the connectionTimeoutMillis timer of the oldest waiting connect fires:
\* that pool.connect() rejects ('timeout exceeded when trying to connect')
PoolConnectTimeout ==
  /\ poolQueue # <<>>
  /\ Head(poolQueue) = TimeoutTicks
  /\ poolQueue' = Tail(poolQueue)
  /\ poolEvent' = "timeout"
  /\ UNCHANGED <<poolTotal, poolIdle>>

PoolInit ==
  /\ store = <<>> /\ req = NoRequest /\ lastRes = NoResponse
  /\ inflight = <<>>
  /\ NoBenchmark
  /\ route = "idle" /\ dlId = 0 /\ resStatus = 0 /\ errBody = FALSE
  /\ headers = NoHeaders
  /\ NoPool /\ NoEncoding
  /\ fmt = "none" /\ compress = FALSE
  /\ batchSize = 1 /\ nrows = 0 /\ bad = {}
  /\ pc = "idle"
  /\ NothingStarted

PoolNext ==
  /\ \/ PoolConnect \/ PoolRelease \/ PoolIdleTimeout
     \/ PoolTick \/ PoolConnectTimeout
  /\ UNCHANGED <<benchVars, cfgVars, genVars, wrVars, ioVars, pqVars, procVars, jobVars,
                 routeVars, encVars>>

\* the pool alone, used by any number of concurrent downloads
PoolSpec == PoolInit /\ [][PoolNext]_vars

\* ---- the values of one row and their serialisations ------------------------------
\* A text is a sequence of one-character strings. A JS value is a record of one
\* shape: k is its kind, n the number (or 0/1 for a boolean, the epoch
\* milliseconds for a Date), s the characters of a string, keys/items the
\* entries of an object (items alone for an array).
JNull == [k |-> "null", n |-> 0, s |-> <<>>, keys |-> <<>>, items |-> <<>>]
JBool(b) == [JNull EXCEPT !.k = "bool", !.n = IF b THEN 1 ELSE 0]
JNum(x) == [JNull EXCEPT !.k = "num", !.n = x]
JBigInt(x) == [JNull EXCEPT !.k = "bigint", !.n = x]
JStr(t) == [JNull EXCEPT !.k = "str", !.s = t]
JDate(ms) == [JNull EXCEPT !.k = "date", !.n = ms]
JList(vs) == [JNull EXCEPT !.k = "list", !.items = vs]
JMap(ks, vs) == [JNull EXCEPT !.k = "map", !.keys = ks, !.items = vs]

DigitChars == <<"0", "1", "2", "3", "4", "5", "6", "7", "8", "9">>
IsDigit(c) == \E i \in DOMAIN DigitChars : DigitChars[i] = c
DigitOf(c) == (CHOOSE i \in DOMAIN DigitChars : DigitChars[i] = c) - 1

\* String(n) of a non-negative integer
RECURSIVE Digits(_)
Digits(x) ==
  IF x < 10 THEN <<DigitChars[x + 1]>>
  ELSE Digits(x \div 10) \o <<DigitChars[(x % 10) + 1]>>

\* the longest run of digits at the start of a text
RECURSIVE DigitRun(_)
DigitRun(cs) ==
  IF cs # <<>> /\ IsDigit(Head(cs)) THEN <<Head(cs)>> \o DigitRun(Tail(cs))
  ELSE <<>>

RECURSIVE NatOf(_, _)
NatOf(ds, acc) ==
  IF ds = <<>> THEN acc ELSE NatOf(Tail(ds), 10 * acc + DigitOf(Head(ds)))

Drop(cs, k) == SubSeq(cs, k + 1, Len(cs))

RECURSIVE Join(_, _)
Join(parts, sep) ==
  IF parts = <<>> THEN <<>>
  ELSE IF Len(parts) = 1 THEN parts[1]
  ELSE parts[1] \o sep \o Join(Tail(parts), sep)

Chars(str) ==
  CASE str = "null" -> <<"n", "u", "l", "l">>
    [] str = "true" -> <<"t", "r", "u", "e">>
    [] str = "false" -> <<"f", "a", "l", "s", "e">>

\* Date.prototype.toISOString, reduced to the epoch milliseconds between the
\* date/time separator and the zone letter
DateIso(ms) == <<"T">> \o Digits(ms) \o <<"Z">>

\* JSON.stringify of a string: quoted, with '"' and '\' escaped
RECURSIVE JsonEscape(_)
JsonEscape(t) ==
  IF t = <<>> THEN <<>>
  ELSE (IF Head(t) \in {"\"", "\\"} THEN <<"\\", Head(t)>> ELSE <<Head(t)>>)
       \o JsonEscape(Tail(t))

JsonQuote(t) == <<"\"">> \o JsonEscape(t) \o <<"\"">>

\* JSON.stringify(v)
RECURSIVE JsonText(_)
JsonText(v) ==
  CASE v.k = "null" -> Chars("null")
    [] v.k = "bool" -> IF v.n = 1 THEN Chars("true") ELSE Chars("false")
    [] v.k = "num" -> Digits(v.n)
    [] v.k = "str" -> JsonQuote(v.s)
    [] v.k = "date" -> JsonQuote(DateIso(v.n))
    [] v.k = "list" ->
         <<"[">> \o Join([i \in DOMAIN v.items |-> JsonText(v.items[i])], <<",">>)
         \o <<"]">>
    [] v.k = "map" ->
         <<"{">>
         \o Join([i \in DOMAIN v.items |->
                    JsonQuote(v.keys[i]) \o <<":">> \o JsonText(v.items[i])],
                 <<",">>)
         \o <<"}">>

\* JSON.parse: a recursive-descent reader; each reader returns the value read
\* and the text left after it
RECURSIVE JsonReadString(_, _)
JsonReadString(cs, acc) ==
  IF Head(cs) = "\"" THEN [v |-> JStr(acc), rest |-> Tail(cs)]
  ELSE IF Head(cs) = "\\" THEN JsonReadString(Drop(cs, 2), Append(acc, cs[2]))
  ELSE JsonReadString(Tail(cs), Append(acc, Head(cs)))

RECURSIVE JsonRead(_)
RECURSIVE JsonReadItems(_, _)
RECURSIVE JsonReadEntries(_, _, _)

JsonReadItems(cs, acc) ==
  IF Head(cs) = "]" THEN [v |-> JList(acc), rest |-> Tail(cs)]
  ELSE LET r == JsonRead(IF Head(cs) = "," THEN Tail(cs) ELSE cs)
       IN JsonReadItems(r.rest, Append(acc, r.v))

JsonReadEntries(cs, ks, vs) ==
  IF Head(cs) = "}" THEN [v |-> JMap(ks, vs), rest |-> Tail(cs)]
  ELSE LET key == JsonReadString(Tail(IF Head(cs) = "," THEN Tail(cs) ELSE cs),
                                 <<>>)
           r == JsonRead(Tail(key.rest))
       IN JsonReadEntries(r.rest, Append(ks, key.v.s), Append(vs, r.v))

JsonRead(cs) ==
  CASE Head(cs) = "n" -> [v |-> JNull, rest |-> Drop(cs, 4)]
    [] Head(cs) = "t" -> [v |-> JBool(TRUE), rest |-> Drop(cs, 4)]
    [] Head(cs) = "f" -> [v |-> JBool(FALSE), rest |-> Drop(cs, 5)]
    [] Head(cs) = "\"" -> JsonReadString(Tail(cs), <<>>)
    [] Head(cs) = "[" -> JsonReadItems(Tail(cs), <<>>)
    [] Head(cs) = "{" -> JsonReadEntries(Tail(cs), <<>>, <<>>)
    [] IsDigit(Head(cs)) ->
         [v |-> JNum(NatOf(DigitRun(cs), 0)), rest |-> Drop(cs, Len(DigitRun(cs)))]

JsonParse(cs) == JsonRead(cs).v

\* ---- one record through each serialiser -----------------------------------------
\* A row is a function from the source fields to JS values as pg delivers them;
\* a column is [source |-> field, target |-> text].
Sources == {"id", "created_at", "name", "value", "metadata"}

\* typeof v === 'object' (null, arrays and Dates included)
TypeofObject(v) == v.k \in {"null", "list", "map", "date"}

\* Object.entries(v): the own enumerable properties; a Date has none
ObjectEntries(v) ==
  IF v.k = "map" THEN [i \in DOMAIN v.items |-> [key |-> v.keys[i], val |-> v.items[i]]]
  ELSE <<>>

\* String(v) of a scalar
JsString(v) ==
  CASE v.k = "str" -> v.s
    [] v.k = "num" -> Digits(v.n)
    [] v.k = "bool" -> IF v.n = 1 THEN Chars("true") ELSE Chars("false")

\* obj[key] = val on an object kept as a sequence of [key, val]: an existing
\* key keeps its position and takes the new value
SetKey(obj, key, val) ==
  IF \E i \in DOMAIN obj : obj[i].key = key
  THEN [i \in DOMAIN obj |-> IF obj[i].key = key THEN [key |-> key, val |-> val]
                                                 ELSE obj[i]]
  ELSE Append(obj, [key |-> key, val |-> val])

\* ---- csvWriter.js -------------------------------------------------------------
\* columns.reduce((acc, c) => { acc[c.source] = c.target; return acc }, {})
RECURSIVE CsvColumns(_, _)
CsvColumns(columns, acc) ==
  IF columns = <<>> THEN acc
  ELSE CsvColumns(Tail(columns),
                  SetKey(acc, Head(columns).source, Head(columns).target))

\* the cast of csv-stringify with cast.object overridden by the writer
CsvCast(v) ==
  CASE v.k = "null" -> <<>>
    [] v.k = "str" -> v.s
    [] v.k = "num" -> Digits(v.n)
    [] v.k = "bool" -> IF v.n = 1 THEN <<"1">> ELSE <<>>
    [] v.k = "date" -> Digits(v.n)
    [] v.k \in {"list", "map"} -> JsonText(v)

RECURSIVE CsvDoubleQuotes(_)
CsvDoubleQuotes(t) ==
  IF t = <<>> THEN <<>>
  ELSE (IF Head(t) = "\"" THEN <<"\"", "\"">> ELSE <<Head(t)>>)
       \o CsvDoubleQuotes(Tail(t))

\* a field is quoted when it holds the delimiter, a quote or a line break
CsvField(t) ==
  IF \E i \in DOMAIN t : t[i] \in {",", "\"", "\n"}
  THEN <<"\"">> \o CsvDoubleQuotes(t) \o <<"\"">>
  ELSE t

CsvLine(cells) == Join([i \in DOMAIN cells |-> CsvField(cells[i])], <<",">>)

\* the header line: the values of the columns object
CsvHeader(columns) ==
  LET cols == CsvColumns(columns, <<>>)
  IN CsvLine([i \in DOMAIN cols |-> cols[i].val])

\* mapped[col.source] = row[col.source] for every column, then
\* csvStringifier.write(mapped): one cell per key of the columns object
CsvRecord(columns, row) ==
  LET cols == CsvColumns(columns, <<>>)
  IN CsvLine([i \in DOMAIN cols |-> CsvCast(row[cols[i].key])])

\* ---- jsonWriter.js ------------------------------------------------------------
\* out[col.target] = row[col.source] for every column
RECURSIVE JsonOut(_, _, _)
JsonOut(columns, row, acc) ==
  IF columns = <<>> THEN acc
  ELSE JsonOut(Tail(columns), row,
               SetKey(acc, Head(columns).target, row[Head(columns).source]))

\* plausible bug: nested values are written as JSON text inside the record
JsonRecord_NestedAsText(columns, row) ==
  LET out == JsonOut(columns, row, <<>>)
  IN JsonText(JMap([i \in DOMAIN out |-> out[i].key],
                   [i \in DOMAIN out |->
                      IF out[i].val.k \in {"list", "map"}
                      THEN JStr(JsonText(out[i].val)) ELSE out[i].val]))

\* JSON.stringify(out)
JsonRecord(columns, row) ==
  LET out == JsonOut(columns, row, <<>>)
  IN JsonText(JMap([i \in DOMAIN out |-> out[i].key],
                   [i \in DOMAIN out |-> out[i].val]))

\* ---- xmlWriter.js -------------------------------------------------------------
Letters ==
  {"a", "b", "c", "d", "e", "f", "g", "h", "i", "j", "k", "l", "m", "n", "o",
   "p", "q", "r", "s", "t", "u", "v", "w", "x", "y", "z",
   "A", "B", "C", "D", "E", "F", "G", "H", "I", "J", "K", "L", "M", "N", "O",
   "P", "Q", "R", "S", "T", "U", "V", "W", "X", "Y", "Z"}

\* plausible bug: the leading-digit rule is left out
Sanitize_KeepDigit(tagName) ==
  [i \in DOMAIN tagName |->
     IF tagName[i] \in Letters \/ IsDigit(tagName[i])
        \/ tagName[i] \in {"_", "-", "."}
     THEN tagName[i] ELSE "_"]

\* tagName.replace(/[^a-zA-Z0-9_\-\.]/g, '_').replace(/^(\d)/, '_$1')
Sanitize(tagName) ==
  LET replaced == [i \in DOMAIN tagName |->
                     IF tagName[i] \in Letters \/ IsDigit(tagName[i])
                        \/ tagName[i] \in {"_", "-", "."}
                     THEN tagName[i] ELSE "_"]
  IN IF replaced # <<>> /\ IsDigit(Head(replaced)) THEN <<"_">> \o replaced
     ELSE replaced

\* the five replacements of the special XML characters
RECURSIVE XmlEscape(_)
XmlEscape(t) ==
  IF t = <<>> THEN <<>>
  ELSE (CASE Head(t) = "&" -> <<"&", "a", "m", "p", ";">>
          [] Head(t) = "<" -> <<"&", "l", "t", ";">>
          [] Head(t) = ">" -> <<"&", "g", "t", ";">>
          [] Head(t) = "\"" -> <<"&", "q", "u", "o", "t", ";">>
          [] Head(t) = "'" -> <<"&", "a", "p", "o", "s", ";">>
          [] OTHER -> <<Head(t)>>)
       \o XmlEscape(Tail(t))

\* pieces of the string valueToXml builds: <name/>, <name>, </name>, text
XmlTag(kind, name) == [t |-> kind, s |-> name]

RECURSIVE valueToXml(_, _)
valueToXml(tagName, value) ==
  LET safe == Sanitize(tagName)
  IN CASE value.k = "null" -> <<XmlTag("empty", safe)>>
       [] value.k = "list" ->
            <<XmlTag("open", safe)>>
            \o Flat([i \in DOMAIN value.items |->
                       valueToXml(<<"i", "t", "e", "m">>, value.items[i])])
            \o <<XmlTag("close", safe)>>
       [] value.k \in {"map", "date"} ->
            <<XmlTag("open", safe)>>
            \o Flat([i \in DOMAIN ObjectEntries(value) |->
                       valueToXml(ObjectEntries(value)[i].key,
                                  ObjectEntries(value)[i].val)])
            \o <<XmlTag("close", safe)>>
       [] OTHER ->
            <<XmlTag("open", safe), XmlTag("text", XmlEscape(JsString(value))),
              XmlTag("close", safe)>>

\* the elements of one <record>: valueToXml(col.target, row[col.source])
XmlRecord(columns, row) ==
  Flat([i \in DOMAIN columns |->
          valueToXml(columns[i].target, row[columns[i].source])])

\* ---- parquetWriter.js ---------------------------------------------------------
getParquetFieldType(source) ==
  CASE source = "id" -> "INT64"
    [] source = "value" -> "DOUBLE"
    [] source = "created_at" -> "TIMESTAMP_MILLIS"
    [] source = "metadata" -> "UTF8"
    [] OTHER -> "UTF8"

\* fields[col.target] = getParquetFieldType(col.source) for every column
RECURSIVE buildSchema(_, _)
buildSchema(columns, acc) ==
  IF columns = <<>> THEN acc
  ELSE buildSchema(Tail(columns),
                   SetKey(acc, Head(columns).target,
                          getParquetFieldType(Head(columns).source)))

\* parseFloat of a decimal text whose fraction is zero: the integer part
ParseFloat(t) == NatOf(DigitRun(t), 0)

\* the coercion of one projected value (BigInt, parseFloat, Date,
\* JSON.stringify when typeof val === 'object')
Coerce(source, val) ==
  CASE source = "id" -> JBigInt(NatOf(val.s, 0))
    [] source = "value" -> JNum(ParseFloat(JsString(val)))
    [] source = "created_at" ->
         IF val.k = "date" THEN val ELSE JDate(val.n)
    [] source = "metadata" /\ TypeofObject(val) -> JStr(JsonText(val))
    [] OTHER -> val

\* record[col.target] = coerced value for every column
RECURSIVE PqRecord(_, _, _)
PqRecord(columns, row, acc) ==
  IF columns = <<>> THEN acc
  ELSE PqRecord(Tail(columns), row,
                SetKey(acc, Head(columns).target,
                       Coerce(Head(columns).source, row[Head(columns).source])))

\* the kinds of JS value a parquetjs field of a type takes without throwing
\* (UTF8 goes through Buffer.from, which rejects numbers and booleans)
PqAccepts(type, v) ==
  CASE type = "INT64" -> v.k \in {"bigint", "num"}
    [] type = "DOUBLE" -> v.k = "num"
    [] type = "TIMESTAMP_MILLIS" -> v.k \in {"date", "num"}
    [] type = "UTF8" -> v.k = "str"

\* writer.appendRow(record) throws
AppendRowThrows(schema, record) ==
  \E i \in DOMAIN schema : ~PqAccepts(schema[i].val, record[i].val)

\* ---- one record, one serialiser ----------------------------------------------
EncColumn(src, tgt) == [source |-> src, target |-> tgt]

\* column mappings that pass the validation of POST /exports
EncColumns ==
  { <<EncColumn("id", <<"I", "D">>)>>,
    <<EncColumn("id", <<"A">>), EncColumn("id", <<"B">>)>>,
    <<EncColumn("id", <<"A">>), EncColumn("name", <<"N">>),
      EncColumn("id", <<"B">>)>>,
    <<EncColumn("name", <<"1", "x">>), EncColumn("metadata", <<"m", " ", "$">>)>>,
    <<EncColumn("metadata", <<"a", "-", "b">>)>>,
    <<EncColumn("created_at", <<"w", "h", "e", "n">>),
      EncColumn("value", <<"v", ".", "1">>)>>,
    <<EncColumn("id", <<"i">>), EncColumn("created_at", <<"c">>),
      EncColumn("name", <<"n">>), EncColumn("value", <<"v">>),
      EncColumn("metadata", <<"m">>)>> }

\* JSONB values of the metadata column
MetaValues ==
  { JNull, JBool(TRUE), JNum(3), JStr(<<"s">>), JStr(<<"a", "\"", ",">>),
    JList(<<>>), JList(<<JNum(1), JStr(<<"<">>)>>),
    JMap(<<<<"a">>>>, <<JNum(1)>>),
    JMap(<<<<"1", "x">>, <<"k", " ">>>>,
         <<JList(<<JMap(<<<<"b">>>>, <<JNull>>), JBool(FALSE)>>),
           JStr(<<"q", "\"", "&">>)>>) }

\* rows of public.records as node-postgres delivers them: BIGSERIAL and
\* DECIMAL as strings, TIMESTAMPTZ as a Date, JSONB parsed
EncRows ==
  { [id |-> JStr(Digits(i)), created_at |-> JDate(5), name |-> JStr(nm),
     value |-> JStr(<<"2", ".", "0">>), metadata |-> md] :
      i \in {7, 12}, nm \in {<<"n">>, <<"a", ",", "\"">>, <<"<", "&">>},
      md \in MetaValues }

Encoded(op, header, line, xml, schema, record, threw) ==
  [op |-> op, header |-> header, line |-> line, xml |-> xml,
   schema |-> schema, record |-> record, threw |-> threw]

EncodeCsv ==
  /\ encOut.op = "none"
  /\ encOut' = Encoded("csv", CsvHeader(encIn.columns),
                       CsvRecord(encIn.columns, encIn.row), <<>>, <<>>, <<>>,
                       FALSE)

EncodeJson ==
  /\ encOut.op = "none"
  /\ encOut' = Encoded("json", <<>>, JsonRecord(encIn.columns, encIn.row),
                       <<>>, <<>>, <<>>, FALSE)

EncodeXml ==
  /\ encOut.op = "none"
  /\ encOut' = Encoded("xml", <<>>, <<>>, XmlRecord(encIn.columns, encIn.row),
                       <<>>, <<>>, FALSE)

EncodeParquet ==
  /\ encOut.op = "none"
  /\ LET schema == buildSchema(encIn.columns, <<>>)
         record == PqRecord(encIn.columns, encIn.row, <<>>)
     IN encOut' = Encoded("parquet", <<>>, <<>>, <<>>, schema, record,
                          AppendRowThrows(schema, record))

EncInit ==
  /\ store = <<>> /\ req = NoRequest /\ lastRes = NoResponse
  /\ inflight = <<>>
  /\ NoBenchmark
  /\ route = "idle" /\ dlId = 0 /\ resStatus = 0 /\ errBody = FALSE
  /\ headers = NoHeaders
  /\ NoPool
  /\ encIn \in [columns : EncColumns, row : EncRows]
  /\ encOut = Encoded("none", <<>>, <<>>, <<>>, <<>>, <<>>, FALSE)
  /\ fmt = "none" /\ compress = FALSE
  /\ batchSize = 1 /\ nrows = 0 /\ bad = {}
  /\ pc = "idle"
  /\ NothingStarted

EncNext ==
  /\ EncodeCsv \/ EncodeJson \/ EncodeXml \/ EncodeParquet
  /\ UNCHANGED <<benchVars, cfgVars, genVars, wrVars, ioVars, pqVars, procVars, jobVars,
                 routeVars, poolVars, encIn>>

\* the serialisers alone, each applied to one record under one mapping
EncSpec == EncInit /\ [][EncNext]_vars

\* ---- reference encodings -------------------------------------------------------------
\* rows cut into cursor batches of n rows (the last batch may be shorter)
RECURSIVE Partition(_, _)
Partition(rows, n) ==
  IF rows = <<>> THEN <<>>
  ELSE <<SubSeq(rows, 1, Min(n, Len(rows)))>>
       \o Partition(SubSeq(rows, Min(n, Len(rows)) + 1, Len(rows)), n)

\* the records writeJson writes for the batches bs, isFirst being `first`
RECURSIVE JsonRecords(_, _)
JsonRecords(bs, first) ==
  IF bs = <<>> THEN <<>>
  ELSE IF Head(bs) = <<>> THEN JsonRecords(Tail(bs), first)
  ELSE JsonChunk(first, Head(Head(bs)))
       \o JsonRecords(<<Tail(Head(bs))>> \o Tail(bs), FALSE)

\* the chunks writeXml writes for the batches bs
RECURSIVE XmlRecords(_)
XmlRecords(bs) ==
  IF bs = <<>> THEN <<>> ELSE XmlChunk(Head(bs)) \o XmlRecords(Tail(bs))

\* the lines csv-stringify emits for the batches bs
CsvLines(bs) ==
  LET rows == Flat(bs) IN
  <<Tok("header", 0)>> \o [i \in DOMAIN rows |-> Tok("line", rows[i])]

\* bytes a writer hands to a sink that accepts every write at once
Unthrottled(f, bs) ==
  CASE f = "json" -> <<Tok("[", 0)>> \o JsonRecords(bs, TRUE)
                     \o <<Tok("nl", 0), Tok("]", 0)>>
    [] f = "xml"  -> <<Tok("<?xml?>", 0), Tok("<records>", 0)>>
                     \o XmlRecords(bs) \o <<Tok("</records>", 0)>>
    [] f = "csv"  -> CsvLines(bs)
    [] OTHER      -> <<Tok("PAR1", 0)>>
                     \o [i \in DOMAIN Flat(bs) |-> Tok("prow", Flat(bs)[i])]
                     \o <<Tok("footer", 0)>>

\* bytes that reach the response, after the optional gzip stage
Delivered(f, z, bs) ==
  IF z THEN GzAll(Unthrottled(f, bs)) \o <<Gz(Tok("trailer", 0))>>
  ELSE Unthrottled(f, bs)

\* ids of the rows encoded in a byte sequence, in order of appearance
RECURSIVE RowsIn(_)
RowsIn(bytes) ==
  IF bytes = <<>> THEN <<>>
  ELSE (IF Head(bytes)[2] = 0 THEN <<>> ELSE <<Head(bytes)[2]>>)
       \o RowsIn(Tail(bytes))

\* the response was ended by a run in which nothing failed
Completed == io.ended["res"] /\ ~werr /\ ~clientAborted /\ ~errBody

\* ---- claims ---------------------------------------------------------------------------

\* C1: for the JSON, XML and CSV writers, while the writer's sink has reported
\* not-ready and has not drained, the writer is suspended (no further write, no
\* cursor read in flight), and no stream ever has more than one refused write
\* outstanding.
C1_SuspendUntilDrain ==
  fmt \in TextFormats =>
    /\ \A s \in Streams : io.pend[s] <= 1
    /\ io.needDrain[Sink] =>
         /\ pc = "waitDrain"
         /\ gen \notin {"connecting", "reading", "closing"}

C1_Witness ==
  /\ fmt \in TextFormats
  /\ pc = "waitDrain" /\ io.pend[Sink] = 1
  /\ gen = "yielded" /\ cursorPos < nrows

\* C2: whatever the not-ready/drain schedule, the bytes a text writer has
\* delivered to the response are always a prefix of the bytes it delivers to an
\* always-ready sink, and equal to them when the download completes.
C2_SameBytesUnderStalls ==
  fmt \in TextFormats =>
    LET ref == Delivered(fmt, compress, Partition(Table, batchSize)) IN
    /\ IsPrefix(io.out, ref)
    /\ Completed => io.out = ref

C2_Witness ==
  /\ fmt \in TextFormats /\ Completed /\ stalled /\ nrows >= 2
  /\ io.out = Delivered(fmt, compress, Partition(Table, batchSize))

\* C3: the output of a completed download (for Parquet also the rows appended
\* to the staged file) equals the encoding of the same rows cut into batches
\* of any size n >= 1.
C3_BatchSizeIndependent ==
  Completed =>
    \A n \in 1..(MaxRows + 1) :
      /\ io.out = Delivered(fmt, compress, Partition(Table, n))
      /\ fmt = "parquet" => pqRows = Flat(Partition(Table, n))

C3_Witness ==
  /\ Completed /\ nrows > batchSize /\ batchSize > 1
  /\ io.out = Delivered(fmt, compress, <<Table>>)

\* C4: the rows encoded so far are the rows yielded so far, in cursor order
\* without gap or repetition, and a completed download has encoded every row
\* of the table exactly once, in order, into its output.
C4_EveryRowOnceInOrder ==
  /\ IsPrefix(encoded, yielded)
  /\ IsPrefix(yielded, Table)
  /\ Completed => /\ yielded = Table
                  /\ encoded = Table
                  /\ RowsIn(io.out) = Table

C4_Witness ==
  /\ Completed /\ nrows = MaxRows /\ batchSize < nrows
  /\ RowsIn(io.out) = Table

\* C5: while a cursor read (or connect/close) is in flight the writer holds no
\* batch: it has processed and written every row yielded so far and is waiting
\* for the next batch; a held batch never exceeds batchSize rows.
C5_OneBatchResident ==
  /\ Len(batch) <= batchSize
  /\ gen \in {"connecting", "reading", "closing"} =>
       /\ batch = <<>>
       /\ pc = "awaitNext"
       /\ encoded = yielded

C5_Witness ==
  /\ gen = "reading" /\ cursorPos > 0 /\ cursorPos < nrows
  /\ batch = <<>> /\ encoded = yielded

\* C6: the connection is checked out at most once and released at most once;
\* it is held exactly from checkout to release; every exit of the generator
\* after checkout (exhausted, read/close failure, early return) has released
\* it; the cursor is only used while the connection is held.
C6_ReleasedExactlyOnce ==
  /\ nAcquired <= 1 /\ nReleased <= nAcquired
  /\ connHeld <=> (nAcquired = 1 /\ nReleased = 0)
  /\ gen = "done" => nReleased = nAcquired
  /\ genExit \in {"exhausted", "readFail", "closeFail", "return"}
       => nReleased = 1
  /\ gen \in {"reading", "closing", "yielded"} => connHeld

C6_Witness ==
  genExit = "return" /\ nAcquired = 1 /\ nReleased = 1 /\ ~connHeld

\* C7: when a cursor.read fails, the cursor has been closed by the time the
\* connection is released and the consumer receives the error.
C7_ReadFailClosesCursor ==
  genExit = "readFail" =>
    /\ relCursor = "closed"
    /\ ~connHeld
    /\ gen = "done"

\* C8: once the consumer has stopped pulling from a started sequence (the
\* writer is blocked on a sink that will never drain), the connection is
\* eventually released.
C8_AbandonedSequenceReleases ==
  (gen = "yielded" /\ pc = "waitDrain" /\ clientAborted) ~> ~connHeld

\* C9: once the response is aborted during a text download, the writer
\* eventually returns with the connection released.
C9_AbortEndsTextWriter ==
  (fmt \in TextFormats /\ clientAborted)
    ~> (pc = "returned" /\ ~connHeld)

\* C10: once the response is aborted during a Parquet download, writeParquet
\* eventually returns, the temp file is deleted and the connection released.
C10_AbortCleansParquet ==
  (fmt = "parquet" /\ clientAborted)
    ~> (pc = "returned" /\ ~tmpExists /\ ~connHeld)

\* C11: once writeParquet has returned, the temp file it created no longer
\* exists (on the success path and on every failure path).
C11_TempFileGoneAtReturn ==
  (fmt = "parquet" /\ pc = "returned") => ~tmpExists

\* C12: in a Parquet download nothing is read from the temp file or written to
\* the response before the generator is exhausted and the writer closed; rows
\* are only appended before the close; the unlink is only issued after the
\* replay ended the response (or after the catch block), as the last step.
C12_StageCloseReplayDelete ==
  fmt = "parquet" =>
    /\ (io.out # <<>> \/ filePos > 0) => (pqClosed /\ genExit = "exhausted")
    /\ pqClosed => (genExit = "exhausted" /\ encoded = yielded
                     /\ pc \in {"pqReplay", "catch", "finally", "returned"})
    /\ pc \in {"pqOpen", "pull", "awaitNext", "row"} => (~pqClosed /\ io.out = <<>>)
    /\ unlinkPending => pc = "returned"
    /\ (pc \in {"finally", "returned"} /\ ~werr) =>
         (pqClosed /\ io.ended["res"] /\ io.out = File)

C12_Witness ==
  /\ fmt = "parquet" /\ nrows = MaxRows /\ batchSize < nrows
  /\ pc = "returned" /\ ~werr /\ unlinkPending
  /\ pqClosed /\ io.out = File

\* C13: when the Parquet writer is closed, exactly the N rows of the source
\* have been appended to it, one append per row, in source order; so a download
\* that completes without error staged N rows.
C13_ExactlyNRowsAppended ==
  fmt = "parquet" =>
    /\ IsPrefix(pqRows, Table)
    /\ pqRows = encoded
    /\ pqClosed => (Len(pqRows) = nrows /\ pqRows = Table)
    /\ Completed => (pqClosed /\ Len(pqRows) = nrows)

C13_Witness ==
  /\ fmt = "parquet" /\ Completed /\ pqClosed
  /\ nrows = MaxRows /\ batchSize = MaxBatch
  /\ Len(pqRows) = MaxRows

\* status of the job being downloaded
JobStatus == IF HasJob(store, dlId) THEN getJob(store, dlId).status ELSE "none"

\* C14: a download that failed before any body byte was written to the
\* response is answered with status 500 and a JSON error body, not with a 200
\* and an empty body.
C14_EarlyFailureIs500 ==
  (route = "done" /\ werr /\ io.out = <<>>) => (resStatus = 500 /\ errBody)

\* C15: once a body byte has been written to the response, no JSON error body
\* and no other status is ever sent: a later failure only ends the response.
C15_NoErrorBodyAfterFirstByte ==
  /\ io.out # <<>> => (resStatus = 200 /\ ~errBody)
  /\ (werr /\ io.out # <<>> /\ pc = "returned") => io.ended["res"]

C15_Witness ==
  /\ werr /\ io.out # <<>> /\ route = "done"
  /\ genExit = "readFail"
  /\ io.ended["res"] /\ resStatus = 200 /\ ~errBody

\* C16: after a download ended, the job's status is 'complete' only if nothing
\* failed, and 'error' whenever the source, the encoder or the sink failed.
C16_StatusReflectsOutcome ==
  (route = "done" /\ HasJob(store, dlId)) =>
    /\ JobStatus = "complete" => (~werr /\ ~clientAborted)
    /\ (werr \/ clientAborted) => JobStatus = "error"

\* C17 (as claimed): while a download is in progress (the consumer has begun
\* pulling and the writer has not returned) the job's status is Streaming.
C17_StreamingWhileInProgress ==
  (route = "awaiting" /\ gen # "fresh" /\ pc # "returned")
    => JobStatus = "streaming"

\* C17 (amended): the status is only ever pending, complete or error; starting
\* and running a download does not change it; it changes only when the writer
\* has returned, and then to complete or error; a finished handler has set it.
C17_StatusSetWhenWriterReturns ==
  /\ [](HasJob(store, dlId) => JobStatus \in {"pending", "complete", "error"})
  /\ []((route = "done" /\ HasJob(store, dlId))
          => JobStatus \in {"complete", "error"})
  /\ [][store' # store =>
          /\ route = "awaiting" /\ route' = "done" /\ pc = "returned"
          /\ JobStatus' \in {"complete", "error"}]_vars

C17_Witness ==
  /\ route = "awaiting" /\ JobStatus = "pending"
  /\ gen = "yielded" /\ pc = "row" /\ io.out # <<>>

\* C18: with gzip active, whenever the response has been ended the gzip stream
\* was ended, has flushed all its output (trailer included) into the response
\* and has emitted 'end'.
C18_GzipFlushedBeforeResponseEnd ==
  (fmt \in TextFormats /\ compress /\ io.ended["res"]) =>
    /\ io.ended["gz"] /\ ~io.destroyed["gz"]
    /\ io.q["gz"] = <<>> /\ io.eof["gz"]

\* C19: POST /exports answers 400 and leaves the store unchanged when the
\* format is missing or unsupported, columns is missing or not a non-empty
\* array of {source, target} non-empty strings, compression is present and not
\* 'gzip', a source is outside the allowlist, or the format is parquet with
\* gzip; otherwise it answers 201 and adds exactly one new pending job under
\* an unused id, leaving the other jobs unchanged.
C19_PostValidates ==
  [][(req # NoRequest /\ req' = NoRequest) =>
      LET items == req.columns.items
          rejected ==
            \/ req.format.t # "string"
            \/ req.format.v \notin {"csv", "json", "xml", "parquet"}
            \/ req.columns.t # "array" \/ items = <<>>
            \/ \E i \in DOMAIN items :
                 \/ items[i].t # "object"
                 \/ items[i].source.t # "string" \/ items[i].source.v = ""
                 \/ items[i].target.t # "string" \/ items[i].target.v = ""
                 \/ items[i].source.v \notin
                      {"id", "created_at", "name", "value", "metadata"}
            \/ req.compression # Undef /\ req.compression # Str("gzip")
            \/ req.format = Str("parquet") /\ req.compression = Str("gzip")
      IN IF rejected
         THEN lastRes'.status = 400 /\ store' = store
         ELSE /\ lastRes'.status = 201
              /\ Len(store') = Len(store) + 1
              /\ SubSeq(store', 1, Len(store)) = store
              /\ lastRes'.exportId = store'[Len(store')].exportId
              /\ \A id \in DOMAIN store :
                   store[id].exportId # lastRes'.exportId
              /\ store'[Len(store')].status = "pending"]_vars

\* C20: every job in the store has a supported format, a non-empty column
\* list whose sources are all in the allowlist, compression null or 'gzip',
\* and is never parquet with gzip: the compress flag of a download is false
\* for every parquet job.
C20_StoredJobsValid ==
  \A id \in DOMAIN store :
    LET job == getJob(store, id) IN
    /\ job.exportId = id
    /\ job.format \in {Str("csv"), Str("json"), Str("xml"), Str("parquet")}
    /\ job.columns # <<>>
    /\ \A i \in DOMAIN job.columns :
         /\ job.columns[i].source.t = "string"
         /\ job.columns[i].source.v \in
              {"id", "created_at", "name", "value", "metadata"}
    /\ job.compression \in {Null, Str("gzip")}
    /\ ~(job.format = Str("parquet") /\ job.compression = Str("gzip"))
    /\ job.format = Str("parquet") => ~CompressFlag(job)

C20_Witness ==
  /\ Len(store) = MaxJobs
  /\ \E id \in DOMAIN store :
       store[id].format = Str("parquet") /\ store[id].compression = Null
  /\ \E id \in DOMAIN store :
       /\ store[id].format = Str("csv") /\ store[id].compression = Str("gzip")
       /\ Len(store[id].columns) > 1

\* C21: a download request for an id that is not in the store is answered 404
\* with a JSON error body; no writer runs, so no connection is acquired and no
\* temp file created; the store is left unchanged.
C21_UnknownIdIs404 ==
  /\ [](~HasJob(store, dlId) =>
          /\ route = "done" => (resStatus = 404 /\ errBody /\ io.ended["res"])
          /\ nAcquired = 0 /\ ~connHeld /\ gen = "fresh"
          /\ ~tmpExists /\ pc = "idle" /\ io.out = <<>>)
  /\ [][~HasJob(store, dlId) => store' = store]_vars

C21_Witness ==
  /\ ~HasJob(store, dlId) /\ route = "done" /\ resStatus = 404
  /\ Len(store) = 1 /\ nAcquired = 0 /\ ~tmpExists

\* C22: the Content-Type of a download is the one of the job's format;
\* Content-Encoding gzip and the '.gz' filename suffix are set exactly when
\* the job's compression is 'gzip' and its format is csv, json or xml.
C22_HeadersFollowJob ==
  HasJob(store, dlId) =>
    LET job == getJob(store, dlId)
        zipped == /\ job.compression = Str("gzip")
                  /\ job.format \in {Str("csv"), Str("json"), Str("xml")}
    IN /\ job.format = Str("csv") => headers.type = "text/csv"
       /\ job.format = Str("json") => headers.type = "application/json"
       /\ job.format = Str("xml") => headers.type = "application/xml"
       /\ job.format = Str("parquet")
            => headers.type = "application/vnd.apache.parquet"
       /\ headers.encoding = "gzip" <=> zipped
       /\ headers.filename[Len(headers.filename)] = "gz" <=> zipped
       /\ headers.filename[2] = job.format.v

C22_Witness ==
  /\ HasJob(store, dlId) /\ route = "done" /\ ~werr
  /\ getJob(store, dlId).format = Str("xml")
  /\ getJob(store, dlId).compression = Str("gzip")
  /\ headers.type = "application/xml" /\ headers.encoding = "gzip"
  /\ io.out # <<>>

\* a connection, fetch, encoding, staging or sink failure has reached the
\* pipeline (a rejected connect/read/close, or the writer's catch block)
Failed ==
  \/ genExit \in {"connectFail", "readFail", "closeFail"}
  \/ werr \/ pc = "catch"

\* C24: one download acquires at most one connection and opens at most one
\* cursor; rows are only ever read forward; after a failure nothing is
\* attempted again: no acquire, no cursor open, no read, no new staging file.
C24_NoSecondAttempt ==
  /\ [](nAcquired <= 1 /\ (cursor # "none" => nAcquired = 1))
  /\ [][/\ cursor # "open" => cursor' # "open" \/ cursor = "none"
        /\ cursorPos' >= cursorPos /\ IsPrefix(yielded, yielded')
        /\ (tmpExists' /\ ~tmpExists) => (pc = "pqOpen" /\ pqRows = <<>>)]_vars
  /\ [][Failed =>
          /\ nAcquired' = nAcquired
          /\ cursor' = "open" => cursor = "open"
          /\ cursorPos' = cursorPos /\ yielded' = yielded
          /\ gen' \in {"connecting", "reading"} => gen' = gen
          /\ tmpExists' => tmpExists]_vars

C24_Witness ==
  /\ route = "done" /\ genExit = "readFail" /\ werr
  /\ nAcquired = 1 /\ cursorPos > 0 /\ cursorPos < nrows

\* the bytes of a response body before the optional gzip stage
Plain(bytes) ==
  LET body == SelectSeq(bytes, LAMBDA t : t[1] # "trailer")
  IN [i \in DOMAIN body |-> Tok(body[i][1], body[i][2])]

\* a JSON array of the records 1..n as the claim describes it
RECURSIVE JsonArrayItems(_, _)
JsonArrayItems(i, n) ==
  IF i > n THEN <<>>
  ELSE <<Tok(IF i = 1 THEN "nl" ELSE "comma-nl", 0), Tok("obj", i)>>
       \o JsonArrayItems(i + 1, n)

JsonArrayOf(n) ==
  <<Tok("[", 0)>> \o JsonArrayItems(1, n) \o <<Tok("nl", 0), Tok("]", 0)>>

\* C25: a completed JSON download of N rows is '[', the N records with a comma
\* separator before each but the first, then ']'; for N = 0 it is the empty
\* array; ']' is written at most once, last, and only after all N records.
C25_JsonArrayFraming ==
  fmt = "json" =>
    LET out == Plain(io.out)
    IN /\ Completed => out = JsonArrayOf(nrows)
       /\ (Completed /\ nrows = 0) => out = <<Tok("[", 0), Tok("nl", 0), Tok("]", 0)>>
       /\ \A i \in DOMAIN out :
            /\ out[i][1] = "]" => (i = Len(out) /\ RowsIn(out) = Table)
            /\ out[i][1] = "[" => i = 1
            /\ out[i][1] = "obj" =>
                 /\ i > 1
                 /\ out[i - 1] = Tok(IF RowsIn(SubSeq(out, 1, i - 1)) = <<>>
                                     THEN "nl" ELSE "comma-nl", 0)

C25_Witness ==
  /\ fmt = "json" /\ Completed /\ nrows > batchSize /\ batchSize > 1
  /\ Plain(io.out) = JsonArrayOf(nrows)
  /\ Len(SelectSeq(io.out, LAMBDA t : t[1] = "comma-nl")) = nrows - 1

\* C23: at most 10 connections are checked out at any instant; a connect made
\* while all 10 are in use is queued, not rejected; a queued connect waits
\* while the pool stays exhausted, gets the first released connection, and is
\* rejected only when its connect timeout has elapsed with none released.
C23_PoolLimitAndWait ==
  /\ [](CheckedOut <= PoolMax /\ CheckedOut >= 0)
  /\ [](poolQueue # <<>> => Exhausted)
  /\ [][(Exhausted /\ Len(poolQueue') > Len(poolQueue))
          <=> poolEvent' = "queued"]_vars
  /\ [][poolEvent' = "timeout" =>
          /\ poolQueue # <<>> /\ Head(poolQueue) = TimeoutTicks
          /\ poolQueue' = Tail(poolQueue)
          /\ CheckedOut' = CheckedOut /\ Exhausted]_vars
  /\ [][poolEvent' = "handed" =>
          poolQueue' = Tail(poolQueue) /\ CheckedOut' = PoolMax]_vars

C23_Witness ==
  /\ poolEvent = "timeout" /\ Exhausted /\ CheckedOut = PoolMax
  /\ Len(poolQueue) = 1 /\ poolQueue[1] = TimeoutTicks

\* the entries of t at the positions in keep, in order
Pick(t, keep) ==
  [m \in 1..Cardinality(keep) |->
     t[CHOOSE j \in keep : Cardinality({x \in keep : x <= j}) = m]]

\* the cells of one CSV line, unquoted (a reader of the csv-stringify output):
\* a comma separates cells when an even number of quotes precedes it; a quoted
\* cell loses its outer quotes and every second quote inside
CsvSplit(line) ==
  LET quotesBefore(i) == Cardinality({j \in 1..(i - 1) : line[j] = "\""})
      commas == {i \in DOMAIN line : line[i] = "," /\ quotesBefore(i) % 2 = 0}
      cuts == Pick([i \in 1..Len(line) |-> i], commas)
      from(m) == IF m = 1 THEN 1 ELSE cuts[m - 1] + 1
      to(m) == IF m = Len(cuts) + 1 THEN Len(line) ELSE cuts[m] - 1
      unquote(cell) ==
        IF cell # <<>> /\ Head(cell) = "\""
        THEN LET body == SubSeq(cell, 2, Len(cell) - 1)
             IN Pick(body, {j \in DOMAIN body :
                              \/ body[j] # "\""
                              \/ Cardinality({x \in 1..j : body[x] = "\""}) % 2 = 1})
        ELSE cell
  IN [m \in 1..(Len(cuts) + 1) |-> unquote(SubSeq(line, from(m), to(m)))]

\* C26: the CSV header has one output name per column mapping entry, in
\* declared order, and the record line one cell per entry, for every mapping
\* that passes validation (repeated source fields included).
C26_CsvOneCellPerEntry ==
  encOut.op = "csv" =>
    /\ CsvSplit(encOut.header)
         = [i \in DOMAIN encIn.columns |-> encIn.columns[i].target]
    /\ Len(CsvSplit(encOut.line)) = Len(encIn.columns)

\* C27: a nested metadata value v is written to its CSV cell as JSON text that
\* parses back to v, and into the JSON record as a nested value, not a string,
\* under the output name.
C27_NestedMetadataRoundTrip ==
  \A i \in DOMAIN encIn.columns :
    (encIn.columns[i].source = "metadata"
     /\ encIn.row.metadata.k \in {"list", "map"}) =>
      /\ (encOut.op = "csv"
          /\ Len(CsvSplit(encOut.line)) = Len(encIn.columns)) =>
            JsonParse(CsvSplit(encOut.line)[i]) = encIn.row.metadata
      /\ encOut.op = "json" =>
            LET parsed == JsonParse(encOut.line)
            IN /\ parsed.k = "map"
               /\ \E j \in DOMAIN parsed.keys :
                    /\ parsed.keys[j] = encIn.columns[i].target
                    /\ parsed.items[j] = encIn.row.metadata
                    /\ parsed.items[j].k # "str"

C27_Witness ==
  /\ encOut.op = "csv" /\ Len(encIn.columns) = 2
  /\ encIn.columns[2].source = "metadata"
  /\ encIn.row.metadata.k = "map" /\ Len(encIn.row.metadata.keys) = 2
  /\ JsonParse(CsvSplit(encOut.line)[2]) = encIn.row.metadata
  /\ Head(CsvSplit(encOut.line)[2]) = "{"

\* n is the sanitised form of the name o: every character outside
\* [A-Za-z0-9_.-] replaced by '_', and '_' put in front of a leading digit
SanitizedOf(o, n) ==
  LET k == Len(n) - Len(o)
  IN /\ k = (IF o # <<>> /\ IsDigit(o[1]) THEN 1 ELSE 0)
     /\ k = 1 => n[1] = "_"
     /\ \A i \in DOMAIN o :
          n[i + k] = IF o[i] \in Letters \/ IsDigit(o[i]) \/ o[i] \in {"_", "-", "."}
                     THEN o[i] ELSE "_"

\* the keys used anywhere inside a value
RECURSIVE KeysOf(_)
KeysOf(v) ==
  {v.keys[i] : i \in DOMAIN v.keys}
  \cup UNION {KeysOf(v.items[i]) : i \in DOMAIN v.items}

\* every closing tag closes the element opened last, under the same name
RECURSIVE TagsMatch(_, _)
TagsMatch(tokens, open) ==
  IF tokens = <<>> THEN open = <<>>
  ELSE CASE Head(tokens).t = "open" ->
              TagsMatch(Tail(tokens), <<Head(tokens).s>> \o open)
         [] Head(tokens).t = "close" ->
              /\ open # <<>> /\ Head(open) = Head(tokens).s
              /\ TagsMatch(Tail(tokens), Tail(open))
         [] OTHER -> TagsMatch(Tail(tokens), open)

\* C28: every element name valueToXml emits is the sanitised form of the key
\* or output name it stands for; opening and closing tags carry the same
\* name; 'a-b' stays 'a-b' and '1x' becomes '_1x'.
C28_XmlNamesSanitized ==
  encOut.op = "xml" =>
    LET names == {c.target : c \in {encIn.columns[i] : i \in DOMAIN encIn.columns}}
                 \cup UNION {KeysOf(encIn.row[c.source]) :
                               c \in {encIn.columns[i] : i \in DOMAIN encIn.columns}}
                 \cup {<<"i", "t", "e", "m">>}
        tags == {encOut.xml[i] : i \in {j \in DOMAIN encOut.xml :
                                          encOut.xml[j].t # "text"}}
    IN /\ \A tag \in tags : \E o \in names : SanitizedOf(o, tag.s)
       /\ \A i \in DOMAIN encIn.columns :
            \E tag \in tags : SanitizedOf(encIn.columns[i].target, tag.s)
       /\ \A c \in {encIn.columns[i] : i \in DOMAIN encIn.columns} :
            \A key \in KeysOf(encIn.row[c.source]) :
              \E tag \in tags : SanitizedOf(key, tag.s)
       /\ SanitizedOf(encIn.columns[1].target, encOut.xml[1].s)
       /\ TagsMatch(encOut.xml, <<>>)
       /\ <<"a", "-", "b">> \in names
            => \E tag \in tags : tag.s = <<"a", "-", "b">>
       /\ <<"1", "x">> \in names
            => /\ \E tag \in tags : tag.s = <<"_", "1", "x">>
               /\ \A tag \in tags : tag.s # <<"1", "x">>

C28_Witness ==
  /\ encOut.op = "xml"
  /\ encIn.columns[1].target = <<"1", "x">>
  /\ encOut.xml[1] = XmlTag("open", <<"_", "1", "x">>)
  /\ \E i \in DOMAIN encOut.xml : encOut.xml[i] = XmlTag("open", <<"k", "_">>)
  /\ \E i \in DOMAIN encOut.xml : encOut.xml[i] = XmlTag("close", <<"m", "_", "_">>)

\* the elements the claim describes for a value, text content left out
RECURSIVE XmlShape(_, _)
XmlShape(name, v) ==
  CASE v.k = "null" -> <<XmlTag("empty", Sanitize(name))>>
    [] v.k = "list" ->
         <<XmlTag("open", Sanitize(name))>>
         \o Flat([i \in DOMAIN v.items |-> XmlShape(<<"i", "t", "e", "m">>, v.items[i])])
         \o <<XmlTag("close", Sanitize(name))>>
    [] v.k = "map" ->
         <<XmlTag("open", Sanitize(name))>>
         \o Flat([i \in DOMAIN v.items |-> XmlShape(v.keys[i], v.items[i])])
         \o <<XmlTag("close", Sanitize(name))>>
    [] OTHER ->
         <<XmlTag("open", Sanitize(name)), XmlTag("text", <<>>),
           XmlTag("close", Sanitize(name))>>

\* C29: valueToXml turns a map into one child per key, a list into one 'item'
\* per entry, at every depth, and every scalar (the id, created_at, name and
\* value columns included) into the text content of its element.
C29_XmlExpansion ==
  encOut.op = "xml" =>
    [i \in DOMAIN encOut.xml |->
       IF encOut.xml[i].t = "text" THEN XmlTag("text", <<>>) ELSE encOut.xml[i]]
    = Flat([i \in DOMAIN encIn.columns |->
              XmlShape(encIn.columns[i].target, encIn.row[encIn.columns[i].source])])

\* JS kind of the values a Parquet type holds
PqKindOf(type) ==
  CASE type = "INT64" -> "bigint"
    [] type = "DOUBLE" -> "num"
    [] type = "TIMESTAMP_MILLIS" -> "date"
    [] type = "UTF8" -> "str"

\* C30: the schema type of a column follows its source field (id INT64, value
\* DOUBLE, created_at TIMESTAMP_MILLIS, anything else UTF8); every appended
\* value has the type of its field; a metadata value of any shape is
\* appended as its JSON text.
C30_ParquetTypesAndJsonText ==
  encOut.op = "parquet" =>
    /\ ~encOut.threw
    /\ \A i \in DOMAIN encIn.columns :
         LET c == encIn.columns[i]
         IN \E j \in DOMAIN encOut.schema :
              /\ encOut.schema[j].key = c.target
              /\ encOut.schema[j].val
                   = (CASE c.source = "id" -> "INT64"
                        [] c.source = "value" -> "DOUBLE"
                        [] c.source = "created_at" -> "TIMESTAMP_MILLIS"
                        [] OTHER -> "UTF8")
              /\ encOut.record[j].key = c.target
              /\ encOut.record[j].val.k = PqKindOf(encOut.schema[j].val)
              /\ c.source = "metadata"
                   => encOut.record[j].val = JStr(JsonText(encIn.row.metadata))

\* C34: every batch streamRows yields is non-empty and has at most batchSize
\* rows; the sequence ends at the first read that returns no row; after that
\* no read is issued and nothing is yielded again.
C34_BatchesBoundedThenEnd ==
  /\ [](pc = "row" => (batch # <<>> /\ Len(batch) <= batchSize))
  /\ [][yielded' # yielded =>
          /\ gen = "reading" /\ gen' = "yielded"
          /\ Len(yielded') - Len(yielded) \in 1..batchSize
          /\ batch' = SubSeq(yielded', Len(yielded) + 1, Len(yielded'))]_vars
  /\ [][(gen = "reading" /\ gen' = "closing") =>
          (cursorPos = nrows /\ cursorPos' = cursorPos /\ yielded' = yielded)]_vars
  /\ [][(gen = "reading" /\ cursorPos = nrows) => gen' # "yielded"]_vars
  /\ [][(gen \in {"closing", "done"}) =>
          /\ gen' \in {"closing", "done"}
          /\ yielded' = yielded /\ cursorPos' = cursorPos]_vars

C34_Witness ==
  /\ gen = "done" /\ genExit = "exhausted" /\ yielded = Table
  /\ batchSize > 1 /\ nrows > batchSize /\ nrows % batchSize # 0

\* C35: an XML download writes the declaration and the opening root element
\* first, every record element after them and before the closing root
\* element, the closing root element once, last, and only after all batches
\* were consumed without error; with zero records the output is the
\* declaration and an empty root element.
C35_XmlDocumentFraming ==
  fmt = "xml" =>
    LET out == Plain(io.out)
        isRecord(t) == t[1] \in {"<record>", "fields", "</record>"}
    IN /\ out # <<>> => out[1] = Tok("<?xml?>", 0)
       /\ Len(out) >= 2 => out[2] = Tok("<records>", 0)
       /\ \A i \in DOMAIN out :
            /\ out[i][1] \in {"<?xml?>", "<records>"} => i <= 2
            /\ isRecord(out[i]) => i > 2
            /\ out[i][1] = "</records>" =>
                 /\ i = Len(out) /\ i > 2
                 /\ RowsIn(out) = Table /\ ~werr
                 /\ gen = "done" /\ genExit = "exhausted"
            /\ out[i][1] = "fields" =>
                 /\ out[i - 1] = Tok("<record>", 0)
                 /\ i < Len(out) => out[i + 1] = Tok("</record>", 0)
       /\ Completed =>
            /\ out[Len(out)] = Tok("</records>", 0)
            /\ Len(out) = 3 + 3 * nrows
       /\ (Completed /\ nrows = 0) =>
            out = <<Tok("<?xml?>", 0), Tok("<records>", 0), Tok("</records>", 0)>>

C35_Witness ==
  /\ fmt = "xml" /\ Completed /\ nrows = 0 /\ compress
  /\ Plain(io.out) = <<Tok("<?xml?>", 0), Tok("<records>", 0), Tok("</records>", 0)>>

\* everything the sink has accepted so far: delivered to the response or
\* still buffered in the gzip stream
SinkWritten == Plain(io.out \o (IF compress THEN Flat(io.q["gz"]) ELSE <<>>))

\* C36: the JSON and XML writers have written their opening framing to the
\* sink before the row sequence is first pulled, so before a connection is
\* requested and before the first read; a connection or first-read failure
\* therefore comes after the first body byte was written.
C36_OpeningBeforeFirstPull ==
  fmt \in {"json", "xml"} =>
    LET opening == IF fmt = "json" THEN <<Tok("[", 0)>>
                   ELSE <<Tok("<?xml?>", 0), Tok("<records>", 0)>>
    IN /\ pc = "open" => (gen = "fresh" /\ nAcquired = 0 /\ cursorPos = 0)
       /\ gen # "fresh" => IsPrefix(opening, SinkWritten)
       /\ (nAcquired > 0 \/ cursorPos > 0 \/ genExit # "none")
            => IsPrefix(opening, SinkWritten)
       /\ (genExit \in {"connectFail", "readFail"} /\ ~compress)
            => (io.out # <<>> /\ HeadersSent)

C36_Witness ==
  /\ fmt = "xml" /\ ~compress /\ genExit = "connectFail" /\ route = "done"
  /\ io.out = <<Tok("<?xml?>", 0), Tok("<records>", 0)>>

Terminated ==
  /\ route = "done" /\ pc = "returned" /\ io.ended["res"]
  /\ ~connHeld /\ nReleased = nAcquired
  /\ ~tmpExists /\ ~unlinkPending
  /\ JobStatus \in {"complete", "error"}

\* C37: when the database answers, the rows are finite and the sink drains
\* after every not-ready signal (the client stays connected), every download
\* terminates: the writer has returned, the response is ended, the connection
\* released, the temp file deleted and the job's status is no longer pending.
C37_DownloadTerminates ==
  <>(~HasJob(store, dlId) \/ clientAborted \/ Terminated)

C37_Witness ==
  /\ Terminated /\ stalled /\ ~werr /\ ~clientAborted
  /\ fmt = "parquet" /\ nAcquired = 1 /\ nrows > batchSize
  /\ RowsIn(io.out) = Table

\* ---- C32: a job's identity and parameters never change --------------------------
\* C32: once a job is in the store, no request (creation of other jobs, start or
\* end of a download, status update) removes it or changes its exportId, format,
\* columns or compression; only its status may change.  updateJobStatus for an
\* id that is not in the store leaves the store as it is.
JobStatuses == {"pending", "complete", "error"}

C32_JobFieldsImmutable ==
  /\ [][\A id \in DOMAIN store :
          /\ id \in DOMAIN store'
          /\ store'[id].exportId = store[id].exportId
          /\ store'[id].format = store[id].format
          /\ store'[id].columns = store[id].columns
          /\ store'[id].compression = store[id].compression]_vars
  /\ [](\A id \in (0..(MaxJobs + 1)) \ DOMAIN store, s \in JobStatuses :
          updateJobStatus(store, id, s) = store)
  /\ [](\A id \in DOMAIN store, s \in JobStatuses :
          /\ DOMAIN updateJobStatus(store, id, s) = DOMAIN store
          /\ \A j \in DOMAIN store :
               updateJobStatus(store, id, s)[j] =
                 IF j = id THEN [store[j] EXCEPT !.status = s] ELSE store[j])

\* two different jobs are stored, the first one has been downloaded to the end
\* and is being downloaded again
C32_Witness ==
  /\ Len(store) = 2
  /\ store[1].format # store[2].format
  /\ store[1].columns # store[2].columns
  /\ store[1].compression # store[2].compression
  /\ store[1].status = "complete" /\ store[2].status = "pending"
  /\ inflight = <<1>>

\* ---- C38: a terminal status is stable ------------------------------------------------
\* C38: once the status of a job is 'complete' or 'error', no later request
\* changes it, whether the job is downloaded again, by several handlers at once,
\* or other jobs are created and downloaded.
C38_TerminalStatusStable ==
  [][\A id \in DOMAIN store :
       store[id].status \in {"complete", "error"} =>
         /\ id \in DOMAIN store'
         /\ store'[id].status = store[id].status]_vars

\* a job that is complete is being downloaded by two handlers at once
C38_Witness ==
  /\ HasJob(store, 1)
  /\ store[1].status = "complete"
  /\ inflight = <<1, 1>>

\* ---- C31: a failed download leaves the process and the other downloads alone ----
\* C31: a failure in the pipeline of one download, the gzip path included,
\* never terminates the process (every other download in progress runs in the
\* same process and ends with it).
C31_FailureLeavesProcessRunning ==
  (werr \/ genExit \in {"connectFail", "readFail", "closeFail"}) => ~crashed

\* ---- C33: the benchmark runs the formats in order and always answers 200 --------
\* C33: GET /exports/benchmark runs csv, json, xml, parquet one after the other,
\* never two at once, each only when the entries of the formats before it are
\* recorded; it answers 200 with exactly four entries in that order; a format
\* whose run fails gives an entry with -1 metrics and an error message, and
\* the next format is run all the same.
EntryOk(e) ==
  IF e.error
  THEN e.durationSeconds = -1 /\ e.fileSizeBytes = -1 /\ e.peakMemoryMB = -1
  ELSE e.durationSeconds >= 0 /\ e.fileSizeBytes >= 0 /\ e.peakMemoryMB >= 0

C33_BenchmarkSequentialFourEntries ==
  /\ [](/\ Cardinality(benchRunning) <= 1
        /\ Len(results) <= Len(formats)
        /\ \A i \in DOMAIN results :
             results[i].format = formats[i] /\ EntryOk(results[i])
        /\ benchRunning # {} =>
             benchRunning = {formats[Len(results) + 1]}
        /\ benchRes # NoBenchResponse =>
             /\ benchRes.status = 200
             /\ Len(benchRes.results) = 4
             /\ \A i \in 1..4 :
                  /\ benchRes.results[i].format = formats[i]
                  /\ EntryOk(benchRes.results[i]))
  /\ [][benchPc = "await" /\ benchOutcome.state = "rejected" =>
          /\ results' = Append(results, FailureEntry(formats[benchIdx]))
          /\ benchIdx < 4 =>
               benchPc' = "call" /\ benchIdx' = benchIdx + 1]_vars
  /\ [][benchPc = "respond" =>
          benchRes'.status = 200 /\ benchRes'.results = results]_vars

\* the second request has been answered: four entries, the failed runs among
\* them
C33_Witness ==
  /\ benchServed = 2
  /\ benchPc = "idle"
  /\ benchRes.status = 200
  /\ Len(benchRes.results) = 4
  /\ benchRes.results[1].error
  /\ benchRes.results[4].format = "parquet"
====
